---- MODULE Spec2Model ----
(***************************************************************************)
(* Position-lifecycle engine of the trading bot (src/bot.py, TradingBot):  *)
(* the positions ledger and its lock, startup reconciliation, the run loop *)
(* with its monitor, scan and execute phases, and the close and open       *)
(* handlers with their exchange calls and error paths.                     *)
(*                                                                         *)
(* Prices are integers: multiples of the quantum the TP/SL functions round *)
(* to.  The ledger's entry prices are multiples of 40 quanta, for which the*)
(* 2.5% and 5.0% offsets of calculate_fixed_tp_sl are whole quanta.        *)
(* The exchange, the market-data source, the chart generator and the       *)
(* notifier transport are the environment: each call to them either        *)
(* returns or raises, chosen nondeterministically.  What only flows into   *)
(* log lines, charts and notification texts (the raw exchange snapshot of  *)
(* an entry, the PnL figures) is not represented; the steps that compute   *)
(* it are, with their failures.                                            *)
(***************************************************************************)
EXTENDS Integers, Sequences, FiniteSets, TLC

\* ------------------------------------------------------------------ bounds
NumSymbols == 2
NumCallers == 2
\* Seconds of one step of the handler's clock
ClockStep == 5
\* Report threads abandoned by a timed-out query that may be running at a time
MaxOrphans == 1
\* Coins of one scan that give a signal (get_trending_coins tracks up to 20)
NumCoins == 6
\* Seconds of one step of the notifier's clock, and how far it runs
NotifyStep == 300
MaxElapsed == 4200

\* ------------------------------------------------------- program constants
\* self.take_profit_pct = 0.05 and self.stop_loss_pct = 0.025, in per mille
take_profit_pct == 50
stop_loss_pct == 25
\* time.sleep(60) in the run loop's exception handler
BackoffSeconds == 60
\* asyncio.wait_for(..., timeout=60.0) in status_command and timeout=30.0 in
\* button_callback
StatusTimeout == 60
DetailTimeout == 30
\* self.error_cooldown_seconds = 600; cutoff_time = current_time - 3600;
\* error_key = error_message[:100]
error_cooldown_seconds == 600
CleanupAge == 3600
KeyLength == 100

Symbols == 1..NumSymbols
\* Config.TRADING_PAIR, the fallback universe of get_trending_coins
TRADING_PAIR == CHOOSE s \in Symbols : \A r \in Symbols : s <= r
\* Entry prices of signals and of exchange positions, in ticks
EntryPrices == {40}
Sides == {"Buy", "Sell"}

\* ---------------------------------------------------------------- threads
Main == 0
MonWorkers == Symbols
Callers == {NumSymbols + c : c \in 1..NumCallers}
ExecThreads == {Main} \cup Callers

VARIABLES
    trending_coins,   \* self.trending_coins: the tracked symbols, in order
    positions,        \* self.positions: symbol -> position data
    positions_lock,   \* self.positions_lock: the set of its holders ({} = free)
    mpc,              \* where the main thread is in run()
    all_positions,    \* check_existing_positions: exchange positions left to reconcile
    backoff,          \* seconds the run loop is sleeping after a failed cycle
    interrupted,      \* a KeyboardInterrupt has been delivered to the main thread
    handler_running,  \* command_handler.running
    wpc,              \* monitor worker of each symbol: where it is
    wpos,             \* monitor worker: pos_data read under the lock
    wprice,           \* monitor worker: current_price (0 = none)
    wreason,          \* close_position_coin: reason ("" = no close)
    wclosed,          \* monitor worker: client.close_position returned in this call
    wnotified,        \* monitor worker: send_error_sync was called in this call
    pending,          \* scan phase: symbols whose analyze_coin has not completed
    signals,          \* scan phase: signals collected, then left to execute
    failed,           \* scan phase: symbols whose analyze_coin caught an exception
    xpc,              \* execute_trade_coin call of each thread: where it is
    xsig,             \* execute_trade_coin: signal_data (<<>> = no call)
    xplaced,          \* execute_trade_coin: place_order returned in this call
    xout,             \* execute_trade_coin: how the last call ended
    rpc,              \* command handler: "busy" while its executor thread generates a report
    hpc,              \* command handler coroutine: "idle", "wait" (in wait_for) or "result"
    hkind,            \* command handler: the report the coroutine asked for ("" = none)
    elapsed,          \* command handler: seconds the coroutine has been in wait_for
    hreply,           \* command handler: the reply it sent to the last command
    orphans,          \* report threads still running after their query timed out
    now,              \* notifier: time.time(), seconds since the bot started
    error_notifications,  \* notifier: error_key -> current_time of the last unsuppressed call
    delivered,        \* the chat: error_key -> time of the last error message delivered
    nout,             \* notifier: the last send_error_sync call and its outcome
    fcall,            \* TP/SL functions: the last call's function and arguments
    fresult           \* TP/SL functions: what the last call returned

vars == <<trending_coins, positions, positions_lock, mpc, all_positions, backoff,
          interrupted, handler_running, wpc, wpos, wprice, wreason, wclosed,
          wnotified, pending, signals, failed, xpc, xsig, xplaced, xout, rpc,
          hpc, hkind, elapsed, hreply, orphans,
          now, error_notifications, delivered, nout, fcall, fresult>>

mainVars == <<trending_coins, mpc, all_positions, backoff, interrupted, handler_running>>
workerVars == <<wpc, wpos, wprice, wreason, wclosed, wnotified>>
scanVars == <<pending, signals, failed>>
execVars == <<xpc, xsig, xplaced, xout>>
handlerVars == <<hpc, hkind, elapsed, hreply, orphans>>
cmdVars == <<rpc, handlerVars>>
notifyVars == <<now, error_notifications, delivered, nout>>
fnVars == <<fcall, fresult>>
\* What the run loop and the ledger operations leave alone, and what the
\* command handler and the notifier leave alone besides the bot's state
sideVars == <<cmdVars, notifyVars, fnVars>>
cmdOthers == <<notifyVars, fnVars>>
notifyOthers == <<cmdVars, fnVars>>

\* ------------------------------------------------------------ pure helpers
\* round(x, 8) of x = num / den, in quanta: the nearest integer.  The product
\* is taken exact; where it lies halfway between two quanta the float product
\* lies to one side or the other, which tie (0 or 1) stands for
Round8(num, den, tie) ==
    LET q == num \div den
        r == num % den
    IN  IF 2 * r < den THEN q
        ELSE IF 2 * r > den THEN q + 1
        ELSE q + tie

\* calculate_fixed_tp_sl: fixed percentage offsets from the entry price,
\* rounded; tie is the side of a halfway product for tp_price and for sl_price
FixedTpSl(entry_price, side, tie) ==
    IF side = "Buy"
    THEN [tp_price |-> Round8(entry_price * (1000 + take_profit_pct), 1000, tie[1]),
          sl_price |-> Round8(entry_price * (1000 - stop_loss_pct), 1000, tie[2])]
    ELSE [tp_price |-> Round8(entry_price * (1000 - take_profit_pct), 1000, tie[1]),
          sl_price |-> Round8(entry_price * (1000 + stop_loss_pct), 1000, tie[2])]

\* calculate_fixed_tp_sl as the ledger operations call it (their entry prices
\* give whole quanta, so no tie arises)
calculate_fixed_tp_sl(entry_price, side) == FixedTpSl(entry_price, side, <<0, 0>>)

\* Prices the market-data source may report: around every TP and SL level
Prices ==
    UNION {LET l == calculate_fixed_tp_sl(e, sd)
           IN  {l.tp_price - 1, l.tp_price, l.tp_price + 1,
                l.sl_price - 1, l.sl_price, l.sl_price + 1, e}
           : <<e, sd>> \in EntryPrices \X Sides}

\* An exchange position snapshot as get_positions returns it: the raw entry of
\* the /v5/position/list response, of which the bot reads symbol, size and
\* avgPrice.  The exchange states the direction in the entry's side field
\* and the size is non-zero (get_positions filters on it)
Snapshot(symbol, side, size, avgPrice) ==
    [symbol |-> symbol, side |-> side, size |-> size, avgPrice |-> avgPrice]

\* Directions and sizes of a reported position: a long position, and a short
\* position with its size reported unsigned or signed
SideSizes == {<<"Buy", 1>>, <<"Sell", 1>>, <<"Sell", -1>>}

\* The entry the ledger stores for a position
PosData(entry_price, side) ==
    LET tp_sl == calculate_fixed_tp_sl(entry_price, side)
    IN  [entry_price |-> entry_price, side |-> side,
         tp_price |-> tp_sl.tp_price, sl_price |-> tp_sl.sl_price]

NoPos == [entry_price |-> 0, side |-> "", tp_price |-> 0, sl_price |-> 0]

\* (mutant) every entry of the dict is the one object that was stored last
PutAliased(m, s, d) == [r \in DOMAIN m \cup {s} |-> d]

\* positions with symbol s set to d / with symbol s deleted
Put(m, s, d) == [r \in DOMAIN m \cup {s} |-> IF r = s THEN d ELSE m[r]]
Del(m, s) == [r \in DOMAIN m \ {s} |-> m[r]]

\* All ascending lists of snapshots with distinct symbols the exchange may report
RECURSIVE SnapshotLists(_)
SnapshotLists(n) ==
    IF n = 0 THEN {<<>>}
    ELSE LET rest == SnapshotLists(n - 1)
         IN  rest \cup {Append(l, Snapshot(n, z[1], z[2], e)) :
                          <<l, z, e>> \in rest \X SideSizes \X EntryPrices}

\* ------------------------------------------------------------------- Init
IdleWorkers ==
    /\ wpc = [s \in MonWorkers |-> "idle"]
    /\ wpos = [s \in MonWorkers |-> NoPos]
    /\ wprice = [s \in MonWorkers |-> 0]
    /\ wreason = [s \in MonWorkers |-> ""]
    /\ wclosed = [s \in MonWorkers |-> FALSE]
    /\ wnotified = [s \in MonWorkers |-> FALSE]

\* No call of a TP/SL function is on record
IdleFn ==
    /\ fcall = [fn |-> "none"]
    /\ fresult = [fn |-> "none"]

\* TelegramNotifier.__init__: no error sent yet.  time.time() is far beyond the
\* cooldown, so the clock counts from CleanupAge on
IdleNotifier ==
    /\ now = CleanupAge
    /\ error_notifications = <<>>
    /\ delivered = <<>>
    /\ nout = <<>>

\* No command is being served
IdleCmd ==
    /\ rpc = "idle"
    /\ hpc = "idle"
    /\ hkind = ""
    /\ elapsed = 0
    /\ hreply = ""
    /\ orphans = 0

IdleExec ==
    /\ xpc = [t \in ExecThreads |-> "idle"]
    /\ xsig = [t \in ExecThreads |-> <<>>]
    /\ xplaced = [t \in ExecThreads |-> FALSE]
    /\ xout = [t \in ExecThreads |-> ""]

\* The state after TradingBot.__init__, as run() starts
Init ==
    /\ trending_coins = <<>>
    /\ positions = <<>>
    /\ positions_lock = {}
    /\ mpc = "run"
    /\ all_positions = <<>>
    /\ backoff = 0
    /\ interrupted = FALSE
    /\ handler_running = FALSE
    /\ pending = {}
    /\ signals = <<>>
    /\ failed = {}
    /\ IdleWorkers
    /\ IdleExec
    /\ IdleCmd
    /\ IdleNotifier
    /\ IdleFn

\* --------------------------------------------------------------- the lock
Acquire(t) == positions_lock = {} /\ positions_lock' = {t}
Release(t) == positions_lock = {t} /\ positions_lock' = {}

\* ------------------------------------------------------------ run: startup
\* get_trending_coins: the fetched ranking (the whole universe, or nothing when
\* no ticker qualifies), or [TRADING_PAIR] when the fetch fails
GetTrendingResults == {[i \in 1..NumSymbols |-> i], <<>>, <<TRADING_PAIR>>}

\* run(): get_trending_coins and setup_leverage_for_all_coins, whose result is
\* only logged
RunGetTrending ==
    /\ mpc = "run"
    /\ trending_coins' \in GetTrendingResults
    /\ mpc' = "ce_fetch"
    /\ UNCHANGED <<positions, positions_lock, all_positions, backoff, interrupted,
                   handler_running, workerVars, scanVars, execVars>>
    /\ UNCHANGED sideVars

\* check_existing_positions: client.get_positions() returns or raises
CheckExistingFetch ==
    /\ mpc = "ce_fetch"
    /\ \/ /\ all_positions' \in SnapshotLists(NumSymbols)
          /\ mpc' = "ce_acquire"
       \/ /\ all_positions' = <<>>
          /\ mpc' = "start_handler"
    /\ UNCHANGED <<trending_coins, positions, positions_lock, backoff, interrupted,
                   handler_running, workerVars, scanVars, execVars>>
    /\ UNCHANGED sideVars

\* check_existing_positions: with self.positions_lock
CheckExistingAcquire ==
    /\ mpc = "ce_acquire"
    /\ Acquire(Main)
    /\ mpc' = IF all_positions = <<>> THEN "ce_release" ELSE "ce_set_tp_sl"
    /\ UNCHANGED <<trending_coins, positions, all_positions, backoff, interrupted,
                   handler_running, workerVars, scanVars, execVars>>
    /\ UNCHANGED sideVars

\* The entry check_existing_positions stores for an exchange snapshot
ExistingEntry(pos) ==
    PosData(pos.avgPrice, IF pos.size > 0 THEN "Buy" ELSE "Sell")

\* check_existing_positions, one pass of the loop body: client.set_tp_sl (its
\* failure is only logged) and the store, all inside the with block
CheckExistingStore ==
    /\ mpc = "ce_set_tp_sl"
    /\ positions_lock = {Main}
    /\ LET pos == Head(all_positions)
       IN  positions' = Put(positions, pos.symbol, ExistingEntry(pos))
    /\ all_positions' = Tail(all_positions)
    /\ mpc' = IF Tail(all_positions) = <<>> THEN "ce_release" ELSE "ce_set_tp_sl"
    /\ UNCHANGED <<trending_coins, positions_lock, backoff, interrupted,
                   handler_running, workerVars, scanVars, execVars>>
    /\ UNCHANGED sideVars

\* check_existing_positions: leaving the with block
CheckExistingRelease ==
    /\ mpc = "ce_release"
    /\ Release(Main)
    /\ mpc' = "ce_return"
    /\ UNCHANGED <<trending_coins, positions, all_positions, backoff, interrupted,
                   handler_running, workerVars, scanVars, execVars>>
    /\ UNCHANGED sideVars

\* check_existing_positions: return len(self.positions) > 0, after the with block
CheckExistingReturn ==
    /\ mpc = "ce_return"
    /\ mpc' = "start_handler"
    /\ UNCHANGED <<trending_coins, positions, positions_lock, all_positions, backoff,
                   interrupted, handler_running, workerVars, scanVars, execVars>>
    /\ UNCHANGED sideVars

\* run(): self.command_handler.start()
StartHandler ==
    /\ mpc = "start_handler"
    /\ handler_running' = TRUE
    /\ mpc' = "cycle_acquire"
    /\ UNCHANGED <<trending_coins, positions, positions_lock, all_positions, backoff,
                   interrupted, workerVars, scanVars, execVars>>
    /\ UNCHANGED sideVars

\* ------------------------------------------------------- run: monitor phase
\* run(): with self.positions_lock, before active_positions = len(self.positions)
CycleAcquire ==
    /\ mpc = "cycle_acquire"
    /\ Acquire(Main)
    /\ mpc' = "cycle_len"
    /\ UNCHANGED <<trending_coins, positions, all_positions, backoff, interrupted,
                   handler_running, workerVars, scanVars, execVars>>
    /\ UNCHANGED sideVars

\* run(): active_positions = len(self.positions); monitor only if it is > 0
CycleLen ==
    /\ mpc = "cycle_len"
    /\ Release(Main)
    /\ mpc' = IF Cardinality(DOMAIN positions) > 0 THEN "mon_acquire" ELSE "scan"
    /\ UNCHANGED <<trending_coins, positions, all_positions, backoff, interrupted,
                   handler_running, workerVars, scanVars, execVars>>
    /\ UNCHANGED sideVars

\* monitor_all_positions_parallel: with self.positions_lock
MonitorAllAcquire ==
    /\ mpc = "mon_acquire"
    /\ Acquire(Main)
    /\ mpc' = "mon_snapshot"
    /\ UNCHANGED <<trending_coins, positions, all_positions, backoff, interrupted,
                   handler_running, workerVars, scanVars, execVars>>
    /\ UNCHANGED sideVars

\* monitor_all_positions_parallel: symbols = list(self.positions.keys()), then
\* one pool worker per symbol is submitted (executor.map)
MonitorAllSubmit ==
    /\ mpc = "mon_snapshot"
    /\ Release(Main)
    /\ wpc' = [s \in MonWorkers |-> IF s \in DOMAIN positions THEN "m_acquire" ELSE wpc[s]]
    /\ mpc' = IF DOMAIN positions = {} THEN "scan" ELSE "mon_join"
    /\ UNCHANGED <<trending_coins, positions, all_positions, backoff, interrupted,
                   handler_running, wpos, wprice, wreason, wclosed, wnotified,
                   scanVars, execVars>>
    /\ UNCHANGED sideVars

\* No monitor worker is running
WorkersDone == \A s \in MonWorkers : wpc[s] = "idle"

\* (mutant) the pool is left without waiting for its workers
NoJoin == TRUE

\* monitor_all_positions_parallel: leaving the with ThreadPoolExecutor block
\* waits for every worker (shutdown(wait=True))
MonitorAllJoinGuard == WorkersDone

MonitorAllJoin ==
    /\ mpc = "mon_join"
    /\ MonitorAllJoinGuard
    /\ mpc' = "scan"
    /\ UNCHANGED <<trending_coins, positions, positions_lock, all_positions, backoff,
                   interrupted, handler_running, workerVars, scanVars, execVars>>
    /\ UNCHANGED sideVars

\* -------------------------------------------------- monitor_position_coin
\* monitor_position_coin: with self.positions_lock
MonAcquire(s) ==
    /\ wpc[s] = "m_acquire"
    /\ Acquire(s)
    /\ wpc' = [wpc EXCEPT ![s] = "m_read"]
    /\ UNCHANGED <<positions, mainVars, wpos, wprice, wreason, wclosed, wnotified,
                   scanVars, execVars>>
    /\ UNCHANGED sideVars

\* A worker's call has returned: the worker ends and its locals are gone
WorkerReturn(s) ==
    /\ wpc' = [wpc EXCEPT ![s] = "idle"]
    /\ wpos' = [wpos EXCEPT ![s] = NoPos]
    /\ wprice' = [wprice EXCEPT ![s] = 0]
    /\ wreason' = [wreason EXCEPT ![s] = ""]
    /\ wclosed' = [wclosed EXCEPT ![s] = FALSE]
    /\ wnotified' = [wnotified EXCEPT ![s] = FALSE]

\* monitor_position_coin: return if the symbol is gone, else read pos_data
MonRead(s) ==
    /\ wpc[s] = "m_read"
    /\ Release(s)
    /\ IF s \in DOMAIN positions
       THEN /\ wpos' = [wpos EXCEPT ![s] = positions[s]]
            /\ wpc' = [wpc EXCEPT ![s] = "m_price"]
            /\ UNCHANGED <<wprice, wreason, wclosed, wnotified>>
       ELSE WorkerReturn(s)
    /\ UNCHANGED <<positions, mainVars, scanVars, execVars>>
    /\ UNCHANGED sideVars

\* monitor_position_coin: client.get_current_price returns a price, or raises,
\* which is only logged
MonPrice(s) ==
    /\ wpc[s] = "m_price"
    /\ \/ \E current_price \in Prices :
            /\ wprice' = [wprice EXCEPT ![s] = current_price]
            /\ wpc' = [wpc EXCEPT ![s] = "m_check"]
            /\ UNCHANGED <<wpos, wreason, wclosed, wnotified>>
       \/ WorkerReturn(s)
    /\ UNCHANGED <<positions, positions_lock, mainVars, scanVars, execVars>>
    /\ UNCHANGED sideVars

\* (mutant) the TP/SL check with strict comparisons
CloseReasonStrict(side, current_price, tp_price, sl_price) ==
    IF side = "Buy"
    THEN IF current_price > tp_price THEN "Take Profit hit"
         ELSE IF current_price < sl_price THEN "Stop Loss hit"
         ELSE ""
    ELSE IF current_price < tp_price THEN "Take Profit hit"
         ELSE IF current_price > sl_price THEN "Stop Loss hit"
         ELSE ""

\* monitor_position_coin: the TP/SL check on the current price
CloseReason(side, current_price, tp_price, sl_price) ==
    IF side = "Buy"
    THEN IF current_price >= tp_price THEN "Take Profit hit"
         ELSE IF current_price <= sl_price THEN "Stop Loss hit"
         ELSE ""
    ELSE IF current_price <= tp_price THEN "Take Profit hit"
         ELSE IF current_price >= sl_price THEN "Stop Loss hit"
         ELSE ""

\* monitor_position_coin: if should_close: self.close_position_coin(symbol,
\* reason, current_price); else return
MonCheck(s) ==
    /\ wpc[s] = "m_check"
    /\ LET reason == CloseReason(wpos[s].side, wprice[s],
                                 wpos[s].tp_price, wpos[s].sl_price)
       IN  IF reason # ""
           THEN /\ wreason' = [wreason EXCEPT ![s] = reason]
                /\ wpc' = [wpc EXCEPT ![s] = "c_acquire"]
                /\ UNCHANGED <<wpos, wprice, wclosed, wnotified>>
           ELSE WorkerReturn(s)
    /\ UNCHANGED <<positions, positions_lock, mainVars, scanVars, execVars>>
    /\ UNCHANGED sideVars

\* ---------------------------------------------------- close_position_coin
\* close_position_coin: with self.positions_lock
CloseAcquire(s) ==
    /\ wpc[s] = "c_acquire"
    /\ Acquire(s)
    /\ wpc' = [wpc EXCEPT ![s] = "c_read"]
    /\ UNCHANGED <<positions, mainVars, wpos, wprice, wreason, wclosed, wnotified,
                   scanVars, execVars>>
    /\ UNCHANGED sideVars

\* close_position_coin: return if the symbol is gone, else read the entry.
\* (From here on reason and exit_price only enter the PnL figures, the chart
\* and the notification text, so they are not kept.)
CloseRead(s) ==
    /\ wpc[s] = "c_read"
    /\ Release(s)
    /\ IF s \in DOMAIN positions
       THEN /\ wpos' = [wpos EXCEPT ![s] = positions[s]]
            /\ wprice' = [wprice EXCEPT ![s] = 0]
            /\ wreason' = [wreason EXCEPT ![s] = ""]
            /\ wpc' = [wpc EXCEPT ![s] = "c_exchange"]
            /\ UNCHANGED <<wclosed, wnotified>>
       ELSE WorkerReturn(s)
    /\ UNCHANGED <<positions, mainVars, scanVars, execVars>>
    /\ UNCHANGED sideVars

\* (mutant) a failed exchange close goes on to the removal
CloseFailedRemoves == "c_rm_acquire"

\* close_position_coin: where a failed client.close_position leads
CloseFailedPc == "c_except"

\* close_position_coin: client.close_position returns or raises
CloseExchange(s) ==
    /\ wpc[s] = "c_exchange"
    /\ \/ /\ wclosed' = [wclosed EXCEPT ![s] = TRUE]
          /\ wpc' = [wpc EXCEPT ![s] = "c_report"]
       \/ /\ wclosed' = wclosed
          /\ wpc' = [wpc EXCEPT ![s] = CloseFailedPc]
    /\ UNCHANGED <<positions, positions_lock, mainVars, wpos, wprice, wreason,
                   wnotified, scanVars, execVars>>
    /\ UNCHANGED sideVars

\* close_position_coin: where a failure after the exchange close leads
ReportFailedPc == "c_except"

\* close_position_coin: the PnL computation, get_kline, add_indicators and
\* generate_exit_chart return, followed by send_exit_sync (which catches its
\* own failures); or one of them raises
CloseReport(s) ==
    /\ wpc[s] = "c_report"
    /\ \/ wpc' = [wpc EXCEPT ![s] = "c_rm_acquire"]
       \/ wpc' = [wpc EXCEPT ![s] = ReportFailedPc]
    /\ UNCHANGED <<positions, positions_lock, mainVars, wpos, wprice, wreason,
                   wclosed, wnotified, scanVars, execVars>>
    /\ UNCHANGED sideVars

\* close_position_coin: with self.positions_lock, before the removal
CloseRemoveAcquire(s) ==
    /\ wpc[s] = "c_rm_acquire"
    /\ Acquire(s)
    /\ wpc' = [wpc EXCEPT ![s] = "c_remove"]
    /\ UNCHANGED <<positions, mainVars, wpos, wprice, wreason, wclosed, wnotified,
                   scanVars, execVars>>
    /\ UNCHANGED sideVars

\* close_position_coin: if symbol in self.positions: del self.positions[symbol]
CloseRemove(s) ==
    /\ wpc[s] = "c_remove"
    /\ Release(s)
    /\ positions' = IF s \in DOMAIN positions THEN Del(positions, s) ELSE positions
    /\ WorkerReturn(s)
    /\ UNCHANGED <<mainVars, scanVars, execVars>>
    /\ UNCHANGED sideVars

\* close_position_coin: except Exception: notifier.send_error_sync(...)
CloseExcept(s) ==
    /\ wpc[s] = "c_except"
    /\ wnotified' = [wnotified EXCEPT ![s] = TRUE]
    /\ wpc' = [wpc EXCEPT ![s] = "c_return"]
    /\ UNCHANGED <<positions, positions_lock, mainVars, wpos, wprice, wreason,
                   wclosed, scanVars, execVars>>
    /\ UNCHANGED sideVars

\* close_position_coin returns after the handler, and monitor_position_coin
\* with it
CloseReturn(s) ==
    /\ wpc[s] = "c_return"
    /\ WorkerReturn(s)
    /\ UNCHANGED <<positions, positions_lock, mainVars, scanVars, execVars>>
    /\ UNCHANGED sideVars

\* ---------------------------------------------------------- run: scan phase
\* A signal as analyze_coin returns it: get_signal's data with symbol and side
Signal(symbol, side, entry_price) ==
    [symbol |-> symbol, side |-> side, entry_price |-> entry_price]

\* analyze_all_coins_parallel: one pool worker per tracked symbol is submitted
ScanSubmit ==
    /\ mpc = "scan"
    /\ pending' = {trending_coins[i] : i \in DOMAIN trending_coins}
    /\ signals' = <<>>
    /\ failed' = {}
    /\ mpc' = "scan_join"
    /\ UNCHANGED <<trending_coins, positions, positions_lock, all_positions, backoff,
                   interrupted, handler_running, workerVars, execVars>>
    /\ UNCHANGED sideVars

\* (mutant) analyze_coin has no handler: the exception leaves the batch
AnalyzeFailureAborts == "loop_except"

\* analyze_coin: except Exception: print, return None; the batch goes on
AfterAnalyzeFailure == "scan_join"

\* analyze_coin in a pool worker, collected by as_completed in completion order:
\* a BUY or SELL signal is appended; HOLD or too few candles give None; an
\* exception of get_kline or get_signal is caught and gives None
AnalyzeCoin(s) ==
    /\ mpc = "scan_join"
    /\ s \in pending
    /\ pending' = pending \ {s}
    /\ \/ /\ \E side \in {"BUY", "SELL"}, entry_price \in EntryPrices :
               signals' = Append(signals, Signal(s, side, entry_price))
          /\ UNCHANGED <<failed, mpc>>
       \/ UNCHANGED <<signals, failed, mpc>>
       \/ /\ failed' = failed \cup {s}
          /\ mpc' = AfterAnalyzeFailure
          /\ signals' = signals
    /\ UNCHANGED <<trending_coins, positions, positions_lock, all_positions, backoff,
                   interrupted, handler_running, workerVars, execVars>>
    /\ UNCHANGED sideVars

\* analyze_all_coins_parallel: leaving the with ThreadPoolExecutor block waits
\* for every worker; run() then executes the signals or shows the analysis
ScanJoinGuard == pending = {}

ScanJoin ==
    /\ mpc = "scan_join"
    /\ ScanJoinGuard
    /\ mpc' = IF signals # <<>> THEN "exec_next" ELSE "no_signal"
    /\ failed' = {}
    /\ UNCHANGED <<trending_coins, positions, positions_lock, all_positions, backoff,
                   interrupted, handler_running, workerVars, pending, signals, execVars>>
    /\ UNCHANGED sideVars

\* run(): no signal: the detailed analysis of the first coins (each coin's
\* failure is caught), then the next cycle
NoSignalReport ==
    /\ mpc = "no_signal"
    /\ mpc' = "cycle_acquire"
    /\ UNCHANGED <<trending_coins, positions, positions_lock, all_positions, backoff,
                   interrupted, handler_running, workerVars, scanVars, execVars>>
    /\ UNCHANGED sideVars

\* ------------------------------------------------------- run: execute phase
\* run(): for signal in signals: self.execute_trade_coin(signal); after the
\* last one the next cycle starts
ExecuteNext ==
    /\ mpc = "exec_next"
    /\ xpc[Main] = "idle"
    /\ IF signals = <<>>
       THEN /\ mpc' = "cycle_acquire"
            /\ UNCHANGED <<signals, execVars>>
       ELSE /\ mpc' = "exec_call"
            /\ signals' = Tail(signals)
            /\ xsig' = [xsig EXCEPT ![Main] = Head(signals)]
            /\ xpc' = [xpc EXCEPT ![Main] = "x_acquire"]
            /\ xplaced' = [xplaced EXCEPT ![Main] = FALSE]
            /\ xout' = [xout EXCEPT ![Main] = ""]
    /\ UNCHANGED <<trending_coins, positions, positions_lock, all_positions, backoff,
                   interrupted, handler_running, workerVars, pending, failed>>
    /\ UNCHANGED sideVars

\* run(): execute_trade_coin has returned
ExecuteReturn ==
    /\ mpc = "exec_call"
    /\ xpc[Main] = "x_done"
    /\ xpc' = [xpc EXCEPT ![Main] = "idle"]
    /\ xsig' = [xsig EXCEPT ![Main] = <<>>]
    /\ xplaced' = [xplaced EXCEPT ![Main] = FALSE]
    /\ xout' = [xout EXCEPT ![Main] = ""]
    /\ mpc' = "exec_next"
    /\ UNCHANGED <<trending_coins, positions, positions_lock, all_positions, backoff,
                   interrupted, handler_running, workerVars, scanVars>>
    /\ UNCHANGED sideVars

\* ------------------------------------------------------ execute_trade_coin
\* execute_trade_coin: side = 'Buy' if side_str.upper() == 'BUY' else 'Sell'
BybitSide(side_str) == IF side_str = "BUY" THEN "Buy" ELSE "Sell"

\* execute_trade_coin: with self.positions_lock
ExecAcquire(t) ==
    /\ xpc[t] = "x_acquire"
    /\ Acquire(t)
    /\ xpc' = [xpc EXCEPT ![t] = "x_check"]
    /\ UNCHANGED <<positions, mainVars, workerVars, scanVars, xsig, xplaced, xout>>
    /\ UNCHANGED sideVars

\* (mutant) the check for an existing position is left out
NoPositionCheck(symbol) == FALSE

\* execute_trade_coin: if symbol in self.positions
AlreadyHavePosition(symbol) == symbol \in DOMAIN positions

\* execute_trade_coin: skip the entry when the symbol already has a position
ExecCheck(t) ==
    /\ xpc[t] = "x_check"
    /\ Release(t)
    /\ IF AlreadyHavePosition(xsig[t].symbol)
       THEN /\ xpc' = [xpc EXCEPT ![t] = "x_done"]
            /\ xout' = [xout EXCEPT ![t] = "skipped"]
       ELSE /\ xpc' = [xpc EXCEPT ![t] = "x_size"]
            /\ xout' = xout
    /\ UNCHANGED <<positions, mainVars, workerVars, scanVars, xsig, xplaced>>
    /\ UNCHANGED sideVars

\* execute_trade_coin: get_minimum_order_size, get_wallet_balance and the
\* sizing return a quantity; or a call raises, or the order value is too small
ExecSize(t) ==
    /\ xpc[t] = "x_size"
    /\ \/ xpc' = [xpc EXCEPT ![t] = "x_place"]
       \/ xpc' = [xpc EXCEPT ![t] = "x_except"]
    /\ UNCHANGED <<positions, positions_lock, mainVars, workerVars, scanVars, xsig,
                   xplaced, xout>>
    /\ UNCHANGED sideVars

\* execute_trade_coin: client.place_order returns or raises
ExecPlace(t) ==
    /\ xpc[t] = "x_place"
    /\ \/ /\ xplaced' = [xplaced EXCEPT ![t] = TRUE]
          /\ xpc' = [xpc EXCEPT ![t] = "x_get_positions"]
       \/ /\ xplaced' = xplaced
          /\ xpc' = [xpc EXCEPT ![t] = "x_except"]
    /\ UNCHANGED <<positions, positions_lock, mainVars, workerVars, scanVars, xsig, xout>>
    /\ UNCHANGED sideVars

\* execute_trade_coin: client.get_positions(symbol) (after the one-second
\* sleep) returns or raises
ExecGetPositions(t) ==
    /\ xpc[t] = "x_get_positions"
    /\ \/ xpc' = [xpc EXCEPT ![t] = "x_set_tp_sl"]
       \/ xpc' = [xpc EXCEPT ![t] = "x_except"]
    /\ UNCHANGED <<positions, positions_lock, mainVars, workerVars, scanVars, xsig,
                   xplaced, xout>>
    /\ UNCHANGED sideVars

\* execute_trade_coin: client.set_tp_sl; its failure is only logged
ExecSetTpSl(t) ==
    /\ xpc[t] = "x_set_tp_sl"
    /\ xpc' = [xpc EXCEPT ![t] = "x_store_acquire"]
    /\ UNCHANGED <<positions, positions_lock, mainVars, workerVars, scanVars, xsig,
                   xplaced, xout>>
    /\ UNCHANGED sideVars

\* execute_trade_coin: with self.positions_lock, before the store
ExecStoreAcquire(t) ==
    /\ xpc[t] = "x_store_acquire"
    /\ Acquire(t)
    /\ xpc' = [xpc EXCEPT ![t] = "x_store"]
    /\ UNCHANGED <<positions, mainVars, workerVars, scanVars, xsig, xplaced, xout>>
    /\ UNCHANGED sideVars

\* execute_trade_coin: self.positions[symbol] = {...}
ExecStore(t) ==
    /\ xpc[t] = "x_store"
    /\ Release(t)
    /\ positions' = Put(positions, xsig[t].symbol,
                        PosData(xsig[t].entry_price, BybitSide(xsig[t].side)))
    /\ xpc' = [xpc EXCEPT ![t] = "x_chart"]
    /\ UNCHANGED <<mainVars, workerVars, scanVars, xsig, xplaced, xout>>
    /\ UNCHANGED sideVars

\* execute_trade_coin: get_kline, add_indicators and generate_entry_chart return,
\* followed by send_entry_sync (which catches its own failures); or one raises
ExecChart(t) ==
    /\ xpc[t] = "x_chart"
    /\ \/ /\ xpc' = [xpc EXCEPT ![t] = "x_done"]
          /\ xout' = [xout EXCEPT ![t] = "opened"]
       \/ /\ xpc' = [xpc EXCEPT ![t] = "x_except"]
          /\ xout' = xout
    /\ UNCHANGED <<positions, positions_lock, mainVars, workerVars, scanVars, xsig,
                   xplaced>>
    /\ UNCHANGED sideVars

\* execute_trade_coin: except Exception: notifier.send_error_sync(...)
ExecExcept(t) ==
    /\ xpc[t] = "x_except"
    /\ xpc' = [xpc EXCEPT ![t] = "x_done"]
    /\ xout' = [xout EXCEPT ![t] = "error"]
    /\ UNCHANGED <<positions, positions_lock, mainVars, workerVars, scanVars, xsig,
                   xplaced>>
    /\ UNCHANGED sideVars

\* ------------------------------------------------- run: failures and stop
\* Places in a cycle where a call outside every inner try block can raise: the
\* scan pool starting its workers, and the analysis display
RaisePcs == {"scan", "no_signal"}

\* Places of the main thread inside the loop's try block
TryPcs == {"cycle_acquire", "cycle_len", "mon_acquire", "mon_snapshot", "mon_join",
           "scan", "scan_join", "no_signal", "exec_next", "exec_call"}

\* run(): an exception of the cycle reaches except Exception
CycleRaise ==
    /\ mpc \in RaisePcs
    /\ mpc' = "loop_except"
    /\ UNCHANGED <<trending_coins, positions, positions_lock, all_positions, backoff,
                   interrupted, handler_running, workerVars, scanVars, execVars>>
    /\ UNCHANGED sideVars

\* (mutant) the handler ends the loop
LoopExceptBreaks == "stopped"

\* run(): where the except Exception handler leaves the main thread
AfterLoopExcept == "backoff"

\* run(): except Exception: send_error_sync (which catches its own failures),
\* then time.sleep(60)
LoopExcept ==
    /\ mpc = "loop_except"
    /\ backoff' = BackoffSeconds
    /\ mpc' = AfterLoopExcept
    /\ UNCHANGED <<trending_coins, positions, positions_lock, all_positions,
                   interrupted, handler_running, workerVars, scanVars, execVars>>
    /\ UNCHANGED sideVars

\* run(): the sleep is over, the while loop starts the next cycle
BackoffDone ==
    /\ mpc = "backoff"
    /\ backoff' = 0
    /\ mpc' = "cycle_acquire"
    /\ UNCHANGED <<trending_coins, positions, positions_lock, all_positions,
                   interrupted, handler_running, workerVars, scanVars, execVars>>
    /\ UNCHANGED sideVars

\* KeyboardInterrupt in the main thread.  Inside the try block it is caught:
\* break, then command_handler.stop().  During startup, or in the except
\* Exception handler and its sleep, it leaves run() without the stop.  The
\* main thread's locals are dropped and its with blocks release the lock; pool
\* workers already started run on.
KeyboardInterrupt ==
    /\ mpc \notin {"stopped", "aborted"}
    /\ interrupted' = TRUE
    /\ IF mpc \in TryPcs
       THEN mpc' = "stopped" /\ handler_running' = FALSE
       ELSE mpc' = "aborted" /\ handler_running' = handler_running
    /\ positions_lock' = positions_lock \ {Main}
    /\ all_positions' = <<>>
    /\ backoff' = 0
    /\ pending' = {}
    /\ signals' = <<>>
    /\ failed' = {}
    /\ xpc' = [xpc EXCEPT ![Main] = "idle"]
    /\ xsig' = [xsig EXCEPT ![Main] = <<>>]
    /\ xplaced' = [xplaced EXCEPT ![Main] = FALSE]
    /\ xout' = [xout EXCEPT ![Main] = ""]
    /\ UNCHANGED <<trending_coins, positions, workerVars>>
    /\ UNCHANGED sideVars

\* ------------------------------------------------------- command surface
\* Reports the command handler can ask for: /status and a coin's detail button
ReportKinds == {"status", "detail"}

\* (mutant) a report rebuilds the ledger from scratch
ReportResetsLedger == positions' = <<>> /\ positions_lock' = positions_lock

\* get_status_report, get_coin_detail_report: neither reads nor writes
\* self.positions, and neither takes positions_lock
ReportLedgerEffect == UNCHANGED <<positions, positions_lock>>

\* status_command / button_callback: loop.run_in_executor starts the report in
\* the handler's executor thread.  get_status_report first refreshes an empty
\* self.trending_coins; get_coin_detail_report writes no attribute of the bot
ReportStart(kind) ==
    /\ handler_running
    /\ rpc = "idle"
    /\ rpc' = "busy"
    /\ trending_coins' \in IF kind = "status" /\ trending_coins = <<>>
                            THEN GetTrendingResults
                            ELSE {trending_coins}
    /\ ReportLedgerEffect
    /\ UNCHANGED <<mpc, all_positions, backoff, interrupted, handler_running,
                   workerVars, scanVars, execVars>>

\* The report returns its text (or its error text): get_kline, the indicators
\* and the chart of every coin are fetched and formatted, each failure caught
ReportReturn ==
    /\ rpc = "busy"
    /\ rpc' = "idle"
    /\ ReportLedgerEffect
    /\ UNCHANGED <<trending_coins, mpc, all_positions, backoff, interrupted,
                   handler_running, workerVars, scanVars, execVars>>

\* (mutant) the two timeouts exchanged
SwappedTimeout(kind) == IF kind = "status" THEN DetailTimeout ELSE StatusTimeout

\* The timeout of the wait_for in status_command and in button_callback
Timeout(kind) == IF kind = "status" THEN StatusTimeout ELSE DetailTimeout

Min(a, b) == IF a <= b THEN a ELSE b

\* status_command / button_callback, up to the wait: a command of another chat
\* is answered "Unauthorized"; the typing indicator or the processing message
\* may fail, which the handler answers with its error text; else the report is
\* handed to the executor and the coroutine waits for it in asyncio.wait_for
HandlerCommand(kind) ==
    /\ hpc = "idle"
    /\ orphans < MaxOrphans
    /\ \/ /\ hreply' \in {"unauthorized", "error"}
          /\ UNCHANGED <<trending_coins, positions, positions_lock, rpc,
                         hpc, hkind, elapsed>>
       \/ /\ ReportStart(kind)
          /\ hpc' = "wait"
          /\ hkind' = kind
          /\ elapsed' = 0
          /\ hreply' = ""
    /\ UNCHANGED <<mpc, all_positions, backoff, interrupted, handler_running,
                   workerVars, scanVars, execVars, orphans>>
    /\ UNCHANGED cmdOthers

\* Time passes while the coroutine waits: wait_for wakes it when the report is
\* there or when the timeout is reached, whichever is first
Tick ==
    /\ hpc = "wait"
    /\ rpc = "busy"
    /\ elapsed < Timeout(hkind)
    /\ elapsed' = Min(elapsed + ClockStep, Timeout(hkind))
    /\ UNCHANGED <<trending_coins, positions, positions_lock, mainVars, workerVars,
                   scanVars, execVars, rpc, hpc, hkind, hreply, orphans>>
    /\ UNCHANGED cmdOthers

\* The awaited report returns (or raises) in the executor thread
AwaitedReportReturn ==
    /\ hpc = "wait"
    /\ ReportReturn
    /\ hpc' = "result"
    /\ UNCHANGED <<hkind, elapsed, hreply, orphans, cmdOthers>>

\* status_command / button_callback after the wait: the report (or the error
\* text for a report that raised) is sent
HandlerResult ==
    /\ hpc = "result"
    /\ hreply' \in {"report", "error"}
    /\ hpc' = "idle"
    /\ hkind' = ""
    /\ elapsed' = 0
    /\ UNCHANGED <<trending_coins, positions, positions_lock, mainVars, workerVars,
                   scanVars, execVars, rpc, orphans>>
    /\ UNCHANGED cmdOthers

\* except asyncio.TimeoutError: the timeout text is sent and the handler
\* returns; the report's thread cannot be cancelled and runs on
HandlerTimeout ==
    /\ hpc = "wait"
    /\ rpc = "busy"
    /\ elapsed = Timeout(hkind)
    /\ hreply' = "timeout"
    /\ hpc' = "idle"
    /\ hkind' = ""
    /\ elapsed' = 0
    /\ rpc' = "idle"
    /\ orphans' = orphans + 1
    /\ UNCHANGED <<trending_coins, positions, positions_lock, mainVars, workerVars,
                   scanVars, execVars>>
    /\ UNCHANGED cmdOthers

\* An abandoned report's thread ends
OrphanReturn ==
    /\ orphans > 0
    /\ orphans' = orphans - 1
    /\ UNCHANGED <<trending_coins, positions, positions_lock, mainVars, workerVars,
                   scanVars, execVars, rpc, hpc, hkind, elapsed, hreply>>
    /\ UNCHANGED cmdOthers

\* ------------------------------------------- lock discipline, by position
\* Is thread t about to call the exchange, the market data or the notifier?
\* (check_existing_positions' set_tp_sl; get_current_price, close_position and
\* the close report; execute_trade_coin's calls)
AtNetworkCall(t) ==
    \/ t = Main /\ mpc \in {"run", "ce_fetch", "ce_set_tp_sl", "no_signal", "loop_except"}
    \/ t \in MonWorkers /\ wpc[t] \in {"m_price", "c_exchange", "c_report", "c_except"}
    \/ t \in ExecThreads /\ xpc[t] \in {"x_size", "x_place", "x_get_positions",
                                         "x_set_tp_sl", "x_chart", "x_except"}

\* Is thread t about to read or write self.positions?
AtPositionsAccess(t) ==
    \/ t = Main /\ mpc \in {"ce_set_tp_sl", "ce_return", "cycle_len", "mon_snapshot"}
    \/ t \in MonWorkers /\ wpc[t] \in {"m_read", "c_read", "c_remove"}
    \/ t \in ExecThreads /\ xpc[t] \in {"x_check", "x_store"}

Threads == {Main} \cup MonWorkers \cup Callers

Next ==
    \/ RunGetTrending
    \/ CheckExistingFetch
    \/ CheckExistingAcquire
    \/ CheckExistingStore
    \/ CheckExistingRelease
    \/ CheckExistingReturn
    \/ StartHandler
    \/ CycleAcquire
    \/ CycleLen
    \/ MonitorAllAcquire
    \/ MonitorAllSubmit
    \/ MonitorAllJoin
    \/ \E s \in MonWorkers :
         \/ MonAcquire(s)
         \/ MonRead(s)
         \/ MonPrice(s)
         \/ MonCheck(s)
         \/ CloseAcquire(s)
         \/ CloseRead(s)
         \/ CloseExchange(s)
         \/ CloseReport(s)
         \/ CloseRemoveAcquire(s)
         \/ CloseRemove(s)
         \/ CloseExcept(s)
         \/ CloseReturn(s)
    \/ ScanSubmit
    \/ \E s \in Symbols : AnalyzeCoin(s)
    \/ ScanJoin
    \/ NoSignalReport
    \/ ExecuteNext
    \/ ExecuteReturn
    \/ ExecAcquire(Main)
    \/ ExecCheck(Main)
    \/ ExecSize(Main)
    \/ ExecPlace(Main)
    \/ ExecGetPositions(Main)
    \/ ExecSetTpSl(Main)
    \/ ExecStoreAcquire(Main)
    \/ ExecStore(Main)
    \/ ExecChart(Main)
    \/ ExecExcept(Main)
    \/ CycleRaise
    \/ LoopExcept
    \/ BackoffDone
    \/ KeyboardInterrupt

Spec == Init /\ [][Next]_vars

\* ------------------------------------------- concurrent execute_trade_coin
\* Threads calling execute_trade_coin concurrently on one TradingBot whose run
\* loop is not running: the ledger starts empty and the lock free
InitConc ==
    /\ trending_coins = [i \in 1..NumSymbols |-> i]
    /\ positions = <<>>
    /\ positions_lock = {}
    /\ mpc = "off"
    /\ all_positions = <<>>
    /\ backoff = 0
    /\ interrupted = FALSE
    /\ handler_running = FALSE
    /\ pending = {}
    /\ signals = <<>>
    /\ failed = {}
    /\ IdleWorkers
    /\ IdleExec
    /\ IdleCmd
    /\ IdleNotifier
    /\ IdleFn

\* A thread calls execute_trade_coin(signal_data)
CallExecute(t) ==
    /\ xpc[t] = "idle"
    /\ \E s \in Symbols, side \in {"BUY", "SELL"}, entry_price \in EntryPrices :
         xsig' = [xsig EXCEPT ![t] = Signal(s, side, entry_price)]
    /\ xpc' = [xpc EXCEPT ![t] = "x_acquire"]
    /\ xplaced' = [xplaced EXCEPT ![t] = FALSE]
    /\ xout' = [xout EXCEPT ![t] = ""]
    /\ UNCHANGED <<positions, positions_lock, mainVars, workerVars, scanVars>>
    /\ UNCHANGED sideVars

\* The thread's call has returned
CallReturn(t) ==
    /\ xpc[t] = "x_done"
    /\ xpc' = [xpc EXCEPT ![t] = "idle"]
    /\ xsig' = [xsig EXCEPT ![t] = <<>>]
    /\ xplaced' = [xplaced EXCEPT ![t] = FALSE]
    /\ xout' = [xout EXCEPT ![t] = ""]
    /\ UNCHANGED <<positions, positions_lock, mainVars, workerVars, scanVars>>
    /\ UNCHANGED sideVars

NextConc ==
    \E t \in Callers :
        \/ CallExecute(t)
        \/ ExecAcquire(t)
        \/ ExecCheck(t)
        \/ ExecSize(t)
        \/ ExecPlace(t)
        \/ ExecGetPositions(t)
        \/ ExecSetTpSl(t)
        \/ ExecStoreAcquire(t)
        \/ ExecStore(t)
        \/ ExecChart(t)
        \/ ExecExcept(t)
        \/ CallReturn(t)

SpecConc == InitConc /\ [][NextConc]_vars

\* ------------------------------------- run loop with the command surface
\* The reports as the run loop meets them: the executor thread's side of a
\* query (the coroutine that waits for the report is followed in SpecTimeout)
ExecutorStart(kind) == ReportStart(kind) /\ UNCHANGED <<handlerVars, cmdOthers>>
ExecutorReturn == ReportReturn /\ UNCHANGED <<handlerVars, cmdOthers>>

NextCmd ==
    \/ Next
    \/ \E kind \in ReportKinds : ExecutorStart(kind)
    \/ ExecutorReturn

SpecCmd == Init /\ [][NextCmd]_vars

\* ------------------------------------------------ the command handler alone
\* The handler of a bot whose run loop is not followed: command_handler.start()
\* has run and the universe is whatever get_trending_coins gave
InitTimeout ==
    /\ trending_coins \in GetTrendingResults
    /\ positions = <<>>
    /\ positions_lock = {}
    /\ mpc = "off"
    /\ all_positions = <<>>
    /\ backoff = 0
    /\ interrupted = FALSE
    /\ handler_running = TRUE
    /\ pending = {}
    /\ signals = <<>>
    /\ failed = {}
    /\ IdleWorkers
    /\ IdleExec
    /\ IdleCmd
    /\ IdleNotifier
    /\ IdleFn

NextTimeout ==
    \/ \E kind \in ReportKinds : HandlerCommand(kind)
    \/ Tick
    \/ AwaitedReportReturn
    \/ HandlerResult
    \/ HandlerTimeout
    \/ OrphanReturn

SpecTimeout == InitTimeout /\ [][NextTimeout]_vars

\* --------------------------------------------------- the error notifier
\* An error message: KeyLength + 1 characters, of which the first and the last
\* are told apart
LongMessage(a, b) ==
    [i \in 1..(KeyLength + 1) |-> IF i = 1 THEN a ELSE IF i = KeyLength + 1 THEN b ELSE 0]

\* Error messages passed to send_error_sync: two long ones with the same first
\* KeyLength characters, and a short one
ErrorMessages == {LongMessage(1, 1), LongMessage(1, 2), <<2>>}

\* send_error_sync: error_key = error_message[:100] if len(error_message) > 100
\* else error_message
ErrorKey(error_message) ==
    IF Len(error_message) > KeyLength
    THEN SubSeq(error_message, 1, KeyLength)
    ELSE error_message

\* send_error_sync: last_sent = self.error_notifications.get(error_key, 0)
LastSent(error_key) ==
    IF error_key \in DOMAIN error_notifications
    THEN error_notifications[error_key]
    ELSE 0

\* send_error_sync: the entries kept by the cleanup, v > cutoff_time
Cleanup(m, current_time) ==
    LET keep == {k \in DOMAIN m : m[k] > current_time - CleanupAge}
    IN  [k \in keep |-> m[k]]

\* Time passes
Advance ==
    /\ now + NotifyStep <= CleanupAge + MaxElapsed
    /\ now' = now + NotifyStep
    /\ UNCHANGED <<trending_coins, positions, positions_lock, mainVars, workerVars,
                   scanVars, execVars, notifyOthers, error_notifications, delivered, nout>>

\* send_error_sync(error_message), one call: suppressed inside the cooldown;
\* else the timestamp is stored, old entries are dropped, and notify_error is
\* run, whose send_message delivers the text or fails (returning False, which
\* nothing reads)
SendErrorSync(error_message) ==
    LET error_key == ErrorKey(error_message)
        current_time == now
    IN  /\ IF current_time - LastSent(error_key) < error_cooldown_seconds
           THEN /\ nout' = [message |-> error_message, at |-> now,
                            outcome |-> "suppressed"]
                /\ UNCHANGED <<error_notifications, delivered>>
           ELSE /\ error_notifications' =
                       Cleanup(Put(error_notifications, error_key, current_time),
                               current_time)
                /\ \/ /\ delivered' = Put(delivered, error_key, now)
                      /\ nout' = [message |-> error_message, at |-> now,
                                  outcome |-> "sent"]
                   \/ /\ delivered' = delivered
                      /\ nout' = [message |-> error_message, at |-> now,
                                  outcome |-> "failed"]
        /\ UNCHANGED <<trending_coins, positions, positions_lock, mainVars, workerVars,
                       scanVars, execVars, notifyOthers, now>>

\* The notifier of a bot whose run loop is not followed
InitNotify ==
    /\ trending_coins = <<>>
    /\ positions = <<>>
    /\ positions_lock = {}
    /\ mpc = "off"
    /\ all_positions = <<>>
    /\ backoff = 0
    /\ interrupted = FALSE
    /\ handler_running = FALSE
    /\ pending = {}
    /\ signals = <<>>
    /\ failed = {}
    /\ IdleWorkers
    /\ IdleExec
    /\ IdleCmd
    /\ IdleNotifier
    /\ IdleFn

NextNotify ==
    \/ Advance
    \/ \E error_message \in ErrorMessages : SendErrorSync(error_message)

SpecNotify == InitNotify /\ [][NextNotify]_vars

\* ------------------------------------------------------- the TP/SL functions
\* Units.  A price is a number of rounding quanta; PriceScale quanta make the
\* price 1 (the source rounds to 8 decimals: the model keeps the quantum and
\* scales the prices, so that the example entry of 100 fits TLC's integers).
\* A percentage is a number of 1/PctScale percent, an ATR fraction a number of
\* 1/AtrScale, a multiplier a number of tenths.
PriceScale == 10
PctScale == 200
AtrScale == 200
MultScale == 10

\* An optional argument: None, or a value
None == <<>>
Some(x) == <<x>>

\* Session-specific ATR multipliers (SessionAwareStrategy.__init__)
atr_asian == 10
atr_european == 15
atr_us == 20

\* get_session: the session of the current UTC hour
Sessions == {"asian", "european", "us"}

\* get_session_parameters(session)['atr_multiplier']
AtrMultiplier(session) ==
    IF session = "asian" THEN atr_asian
    ELSE IF session = "european" THEN atr_european
    ELSE atr_us

\* The same reward multiple for every session
FlatReward(session) == 20

\* calculate_tp_sl: the session-specific R:R ratio
RewardMultiple(session) ==
    IF session = "asian" THEN 15
    ELSE IF session = "european" THEN 20
    ELSE 25

\* The take-profit default in the stop-loss's place
SwappedDefault == 5 * PctScale

\* calculate_tp_sl: the percentages used when none is passed (2.5 and 5.0)
DefaultSlPercent == (5 * PctScale) \div 2
DefaultTpPercent == 5 * PctScale

\* str.upper over the side arguments
Upper(side) ==
    IF side \in {"Buy", "buy", "BUY"} THEN "BUY"
    ELSE IF side \in {"Sell", "sell", "SELL"} THEN "SELL"
    ELSE side

\* SessionAwareStrategy.calculate_tp_sl.  env is what the environment decides:
\* env.session is what get_session() returns when no session is passed, and
\* env.tie the side of a halfway product for tp_price and for sl_price
calculate_tp_sl(entry_price, side, atr_pct, session_arg, tp_percent, sl_percent, env) ==
    LET session == IF session_arg = None THEN env.session ELSE session_arg[1]
        atr_multiplier == AtrMultiplier(session)
        dynamic == atr_pct # None /\ tp_percent = None /\ sl_percent = None
        sl_pct == IF dynamic
                  THEN (atr_pct[1] * atr_multiplier * 100 * PctScale)
                           \div (AtrScale * MultScale)
                  ELSE IF sl_percent # None THEN sl_percent[1] ELSE DefaultSlPercent
        tp_pct == IF dynamic
                  THEN (sl_pct * RewardMultiple(session)) \div MultScale
                  ELSE IF tp_percent # None THEN tp_percent[1] ELSE DefaultTpPercent
        whole == 100 * PctScale
        tp_price == IF Upper(side) = "BUY"
                    THEN Round8(entry_price * (whole + tp_pct), whole, env.tie[1])
                    ELSE Round8(entry_price * (whole - tp_pct), whole, env.tie[1])
        sl_price == IF Upper(side) = "BUY"
                    THEN Round8(entry_price * (whole - sl_pct), whole, env.tie[2])
                    ELSE Round8(entry_price * (whole + sl_pct), whole, env.tie[2])
    IN  [fn |-> "calculate_tp_sl",
         tp_price |-> tp_price,
         sl_price |-> sl_price,
         tp_percent |-> tp_pct,
         sl_percent |-> sl_pct,
         session |-> session,
         atr_multiplier |-> atr_multiplier]

\* The arguments the functions are called with: the smallest prices and the
\* price 100; ATR fractions 0, 0.01 and 0.7; an override of 3.0 percent
MaxEntry == 24
EntryArgs == (1..MaxEntry) \cup {100 * PriceScale}
StrategySides == {"Buy", "Sell", "buy", "sell"}
AtrArgs == {None, Some(0), Some(AtrScale \div 100), Some((7 * AtrScale) \div 10)}
SessionArgs == {None} \cup {Some(s) : s \in Sessions}
PercentArgs == {None, Some(3 * PctScale)}
Ties == {0, 1} \X {0, 1}

\* The calls of TradingBot.calculate_fixed_tp_sl
FixedCalls ==
    [fn : {"calculate_fixed_tp_sl"}, entry_price : EntryArgs, side : Sides]

\* The calls of SessionAwareStrategy.calculate_tp_sl
StrategyCalls ==
    [fn : {"calculate_tp_sl"}, entry_price : EntryArgs, side : StrategySides,
     atr_pct : AtrArgs, session : SessionArgs,
     tp_percent : PercentArgs, sl_percent : PercentArgs]

\* TradingBot.calculate_fixed_tp_sl applied to the arguments of the call
CallFixed ==
    /\ fcall.fn = "calculate_fixed_tp_sl"
    /\ fresult.fn = "none"
    /\ \E tie \in Ties :
           fresult' = [fn |-> "calculate_fixed_tp_sl"]
                          @@ FixedTpSl(fcall.entry_price, fcall.side, tie)
    /\ UNCHANGED <<trending_coins, positions, positions_lock, mainVars, workerVars,
                   scanVars, execVars, cmdVars, notifyVars, fcall>>

\* SessionAwareStrategy.calculate_tp_sl applied to the arguments of the call
CallStrategy ==
    /\ fcall.fn = "calculate_tp_sl"
    /\ fresult.fn = "none"
    /\ \E now_session \in Sessions, tie \in Ties :
           fresult' = calculate_tp_sl(fcall.entry_price, fcall.side, fcall.atr_pct,
                                      fcall.session, fcall.tp_percent,
                                      fcall.sl_percent,
                                      [session |-> now_session, tie |-> tie])
    /\ UNCHANGED <<trending_coins, positions, positions_lock, mainVars, workerVars,
                   scanVars, execVars, cmdVars, notifyVars, fcall>>

\* One call of one of the two functions, on a bot that does nothing else
InitTpSl ==
    /\ trending_coins = <<>>
    /\ positions = <<>>
    /\ positions_lock = {}
    /\ mpc = "off"
    /\ all_positions = <<>>
    /\ backoff = 0
    /\ interrupted = FALSE
    /\ handler_running = FALSE
    /\ pending = {}
    /\ signals = <<>>
    /\ failed = {}
    /\ IdleWorkers
    /\ IdleExec
    /\ IdleCmd
    /\ IdleNotifier
    /\ fcall \in FixedCalls \cup StrategyCalls
    /\ fresult = [fn |-> "none"]

NextTpSl ==
    \/ CallFixed
    \/ CallStrategy

SpecTpSl == InitTpSl /\ [][NextTpSl]_vars

\* ------------------------------------------------- the strategy's sessions
\* A timestamp is a wall-clock minute of the day with an optional UTC offset
\* in minutes (tz); hours, not dates, decide the session
MinuteStep == 30
DayMinutes == 1440
Minutes == {m \in 0..(DayMinutes - 1) : m % MinuteStep = 0}
TzOffsets == {0, -300, 330, 540}
Timestamp(minute, tz) == [minute |-> minute, tz |-> tz]
Timestamps == {Timestamp(m, tz) : m \in Minutes, tz \in {None} \cup {Some(o) : o \in TzOffsets}}

\* (mutant) the wall-clock time is kept when the zone is changed
TzKeep(timestamp) == Timestamp(timestamp.minute, Some(0))

\* Timestamp.tz_convert('UTC'): the same instant on the UTC clock
TzConvert(timestamp) ==
    Timestamp((timestamp.minute - timestamp.tz[1] + DayMinutes) % DayMinutes, Some(0))

\* Timestamp.tz_localize('UTC'): the wall-clock time is taken as UTC
TzLocalize(timestamp) == Timestamp(timestamp.minute, Some(0))

\* get_session(timestamp); utc_now is what pd.Timestamp.now(tz='UTC') returns
\* when no timestamp is passed
get_session(timestamp_arg, utc_now) ==
    LET given == IF timestamp_arg = None THEN utc_now ELSE timestamp_arg[1]
        timestamp == IF given.tz # None THEN TzConvert(given) ELSE TzLocalize(given)
        hour == timestamp.minute \div 60
    IN  [fn |-> "get_session",
         hour |-> hour,
         session |-> IF 0 <= hour /\ hour < 9 THEN "asian"
                     ELSE IF 9 <= hour /\ hour < 17 THEN "european"
                     ELSE "us"]

\* (mutant) the us session takes no long above an RSI of 50
TightRsi == [overbought |-> 50, oversold |-> 30]

\* Session-specific RSI thresholds and volume multipliers (tenths)
rsi_asian == [overbought |-> 60, oversold |-> 40]
rsi_european == [overbought |-> 65, oversold |-> 35]
rsi_us == [overbought |-> 70, oversold |-> 30]
vol_asian == 8
vol_european == 10
vol_us == 12

\* get_session_parameters: the biases, in hundredths
AsianBias == [trend |-> 40, mean_reversion |-> 60]
EuropeanBias == [trend |-> 70, mean_reversion |-> 30]
UsTrendBias == 85

\* (mutant) the us session with a mean-reversion bias of 0.25
SkewedUsBias == (100 - UsTrendBias) + 10

UsMeanReversionBias == 15

\* get_session_parameters(session)
get_session_parameters(session) ==
    IF session = "asian"
    THEN [rsi_overbought |-> rsi_asian.overbought,
          rsi_oversold |-> rsi_asian.oversold,
          atr_multiplier |-> atr_asian,
          min_volume_mult |-> vol_asian,
          trend_bias |-> AsianBias.trend,
          mean_reversion_bias |-> AsianBias.mean_reversion]
    ELSE IF session = "european"
    THEN [rsi_overbought |-> rsi_european.overbought,
          rsi_oversold |-> rsi_european.oversold,
          atr_multiplier |-> atr_european,
          min_volume_mult |-> vol_european,
          trend_bias |-> EuropeanBias.trend,
          mean_reversion_bias |-> EuropeanBias.mean_reversion]
    ELSE [rsi_overbought |-> rsi_us.overbought,
          rsi_oversold |-> rsi_us.oversold,
          atr_multiplier |-> atr_us,
          min_volume_mult |-> vol_us,
          trend_bias |-> UsTrendBias,
          mean_reversion_bias |-> UsMeanReversionBias]

\* The session names get_session_parameters is called with
SessionNames == Sessions \cup {"", "US", "london"}

\* The calls of get_session and of get_session_parameters
SessionCalls ==
    [fn : {"get_session"}, timestamp : {None} \cup {Some(ts) : ts \in Timestamps}]
ParameterCalls == [fn : {"get_session_parameters"}, session : SessionNames]

\* get_session applied to the arguments of the call
CallGetSession ==
    /\ fcall.fn = "get_session"
    /\ fresult.fn = "none"
    /\ \E minute \in Minutes :
           fresult' = get_session(fcall.timestamp, Timestamp(minute, Some(0)))
    /\ UNCHANGED <<trending_coins, positions, positions_lock, mainVars, workerVars,
                   scanVars, execVars, cmdVars, notifyVars, fcall>>

\* get_session_parameters applied to the arguments of the call
CallGetSessionParameters ==
    /\ fcall.fn = "get_session_parameters"
    /\ fresult.fn = "none"
    /\ fresult' = [fn |-> "get_session_parameters"]
                      @@ get_session_parameters(fcall.session)
    /\ UNCHANGED <<trending_coins, positions, positions_lock, mainVars, workerVars,
                   scanVars, execVars, cmdVars, notifyVars, fcall>>

\* ------------------------------------------------- the strategy's signals
\* Indicator values are integers; NaN is the undefined value of a column.  A
\* comparison with NaN is false, as in pandas
NaN == -1000000
isna(x) == x = NaN
Gt(a, b) == a # NaN /\ b # NaN /\ a > b
\* (mutant) a < b also holds where a > b does
LtOrGt(a, b) == a # NaN /\ b # NaN /\ a # b
Lt(a, b) == a # NaN /\ b # NaN /\ a < b
Ge(a, b) == a # NaN /\ b # NaN /\ a >= b
Le(a, b) == a # NaN /\ b # NaN /\ a <= b

\* A quotient num / den of two columns: den = 0 gives +inf, -inf or (0 / 0) NaN
Ratio(num, den) == [num |-> num, den |-> den]
\* ratio > p / q and ratio < p / q, for q > 0 and den >= 0
RatioGt(r, p, q) ==
    /\ r.num # NaN /\ r.den # NaN
    /\ IF r.den = 0 THEN r.num > 0 ELSE r.num * q > p * r.den
RatioLt(r, p, q) ==
    /\ r.num # NaN /\ r.den # NaN
    /\ IF r.den = 0 THEN r.num < 0 ELSE r.num * q < p * r.den

\* float(condition)
Flag(b) == IF b THEN 1 ELSE 0

\* SessionAwareStrategy.__init__: the windows that bound the series length,
\* the trend strength threshold (per mille)
ema_slow == 50
bb_period == 20
volume_ma_period == 20
trend_strength_threshold == 2
Max(a, b) == IF a >= b THEN a ELSE b

\* add_indicators: the columns computed from other columns (bb_position and
\* volume_ratio); the EMA, RSI, MACD and band columns come from the indicator
\* library and are part of the frame
add_indicators(df) ==
    LET current == df.current
    IN  [df EXCEPT !.current =
             current @@
             [bb_position |-> Ratio(IF current.close = NaN \/ current.bb_lower = NaN
                                    THEN NaN ELSE current.close - current.bb_lower,
                                    IF current.bb_upper = NaN \/ current.bb_lower = NaN
                                    THEN NaN ELSE current.bb_upper - current.bb_lower),
              volume_ratio |-> Ratio(current.volume, current.volume_ma)]]

\* (mutant) the momentum terms are added without rescaling the trend score
NoRescale == 750 + 250

\* calculate_signal_strength: the share of the trend score that is kept when
\* the momentum terms are added (0.75)
TrendRescale == 750

\* calculate_signal_strength: the scores, in millionths, from the flags
TrendScore(alignment, price_vs_slow, price_vs_fast, ema_gap, ema_cross, macd_side, macd_cross, has_momentum, trend_momentum, ema_momentum) ==
    LET score == alignment * 200 + price_vs_slow * 150 + price_vs_fast * 150
                     + ema_gap * 150 + ema_cross * 150
                     + macd_side * 100 + macd_cross * 100
    IN  IF has_momentum
        THEN score * TrendRescale + (trend_momentum * 125000 + ema_momentum * 125000)
        ELSE score * 1000
MeanReversionScore(bb_extreme, bb_turn, rsi_extreme, outside_bb, volume_surge) ==
    (bb_extreme * 250 + bb_turn * 350 + rsi_extreme * 200 + outside_bb * 200) * 800
        + volume_surge * 200000

\* calculate_signal_strength(df, session_params): the long and the short
\* strength, in units of 10^-8
calculate_signal_strength(df, session_params) ==
    LET current == df.current
        previous == df.previous
        third == df.third
        fourth == df.fourth
        has_momentum == df.len >= 4
        volume_surge == Flag(RatioGt(current.volume_ratio, 15, 10))
        trend_score ==
            TrendScore(
                Flag(Gt(current.ema_fast, current.ema_medium)
                         /\ Gt(current.ema_medium, current.ema_slow)),
                Flag(Gt(current.close, current.ema_slow)),
                Flag(Gt(current.close, current.ema_fast)),
                Flag(/\ current.ema_fast # NaN /\ current.ema_slow # NaN
                     /\ (current.ema_fast - current.ema_slow) * 1000
                            > trend_strength_threshold * current.ema_slow),
                Flag(Gt(current.ema_fast, current.ema_medium)
                         /\ Le(previous.ema_fast, previous.ema_medium)),
                Flag(Gt(current.macd, current.macd_signal) /\ Gt(current.macd_diff, 0)),
                Flag(Gt(current.macd, current.macd_signal)
                         /\ Le(previous.macd, previous.macd_signal)),
                has_momentum,
                Flag(Gt(current.close, fourth.close)),
                Flag(Gt(current.ema_fast, third.ema_fast)))
        mr_score ==
            MeanReversionScore(
                Flag(RatioLt(current.bb_position, 25, 100)),
                Flag(Gt(current.close, previous.close) /\ Lt(previous.close, third.close)),
                Flag(Lt(current.rsi, session_params.rsi_oversold)),
                Flag(Lt(current.close, current.bb_lower)),
                volume_surge)
        trend_score_short ==
            TrendScore(
                Flag(Lt(current.ema_fast, current.ema_medium)
                         /\ Lt(current.ema_medium, current.ema_slow)),
                Flag(Lt(current.close, current.ema_slow)),
                Flag(Lt(current.close, current.ema_fast)),
                Flag(/\ current.ema_fast # NaN /\ current.ema_slow # NaN
                     /\ (current.ema_slow - current.ema_fast) * 1000
                            > trend_strength_threshold * current.ema_slow),
                Flag(Lt(current.ema_fast, current.ema_medium)
                         /\ Ge(previous.ema_fast, previous.ema_medium)),
                Flag(Lt(current.macd, current.macd_signal) /\ Lt(current.macd_diff, 0)),
                Flag(Lt(current.macd, current.macd_signal)
                         /\ Ge(previous.macd, previous.macd_signal)),
                has_momentum,
                Flag(Lt(current.close, fourth.close)),
                Flag(Lt(current.ema_fast, third.ema_fast)))
        mr_score_short ==
            MeanReversionScore(
                Flag(RatioGt(current.bb_position, 75, 100)),
                Flag(Lt(current.close, previous.close) /\ Gt(previous.close, third.close)),
                Flag(Gt(current.rsi, session_params.rsi_overbought)),
                Flag(Gt(current.close, current.bb_upper)),
                volume_surge)
    IN  [long |-> trend_score * session_params.trend_bias
                      + mr_score * session_params.mean_reversion_bias,
         short |-> trend_score_short * session_params.trend_bias
                       + mr_score_short * session_params.mean_reversion_bias]

\* One unit of strength, and a threshold given in hundredths, in units of 10^-8
StrengthOne == 100000000
Threshold(signal_threshold) == signal_threshold * 1000000

\* strength > self.signal_threshold.  The strengths are sums of float products:
\* where the exact sum equals the threshold the float sum lies on one side of
\* it or the other, which tie stands for
Exceeds(strength, signal_threshold, tie) ==
    \/ strength > Threshold(signal_threshold)
    \/ strength = Threshold(signal_threshold) /\ tie

\* (mutant) the series only has to cover the volume window
MinCandlesShort == volume_ma_period

\* get_signal: the least series length for which indicators are computed
MinCandles == Max(ema_slow, Max(bb_period, volume_ma_period))

\* (mutant) any traded volume passes the volume check
AnyVolume(current, session_params) == TRUE

\* get_signal: the volume check and the RSI safety filters
volume_ok(current, session_params) ==
    RatioGt(current.volume_ratio, session_params.min_volume_mult, 10)
long_not_overbought(current, session_params) ==
    Lt(current.rsi, session_params.rsi_overbought)
short_not_oversold(current, session_params) ==
    Gt(current.rsi, session_params.rsi_oversold)

\* (mutant) the sell branch is tried first
DecideSellFirst(buy, sell) ==
    IF sell THEN "SELL" ELSE IF buy THEN "BUY" ELSE "HOLD"

\* get_signal: the buy branch, then the sell branch, then HOLD
Decide(buy, sell) ==
    IF buy THEN "BUY" ELSE IF sell THEN "SELL" ELSE "HOLD"

\* get_signal(df) of a strategy with the given signal_threshold (hundredths);
\* env.tie_long and env.tie_short decide the comparisons at exact equality
get_signal(df, signal_threshold, env) ==
    IF df.len < MinCandles
    THEN [fn |-> "get_signal", signal |-> "HOLD", signal_data |-> None]
    ELSE
    LET with_indicators == add_indicators(df)
        session == get_session(Some(with_indicators.current.timestamp),
                               with_indicators.current.timestamp).session
        session_params == get_session_parameters(session)
        current == with_indicators.current
    IN  IF isna(current.ema_fast) \/ isna(current.ema_slow) \/ isna(current.rsi)
        THEN [fn |-> "get_signal", signal |-> "HOLD", signal_data |-> None]
        ELSE
        LET strength == calculate_signal_strength(with_indicators, session_params)
            buy == /\ Exceeds(strength.long, signal_threshold, env.tie_long)
                   /\ volume_ok(current, session_params)
                   /\ long_not_overbought(current, session_params)
            sell == /\ Exceeds(strength.short, signal_threshold, env.tie_short)
                    /\ volume_ok(current, session_params)
                    /\ short_not_oversold(current, session_params)
            signal == Decide(buy, sell)
        IN  [fn |-> "get_signal",
             signal |-> signal,
             signal_data |->
                 IF signal = "HOLD" THEN None
                 ELSE Some([entry_price |-> current.close,
                            signal_strength |-> IF signal = "BUY" THEN strength.long
                                                ELSE strength.short,
                            session |-> session])]

\* The candle series the strategy is given: the last candle with its indicator
\* columns and the columns read from the three candles before it
EmaTriples ==
    {<<101, 100, 98>>, <<98, 100, 101>>, <<100, 100, 100>>,
     <<NaN, 100, 98>>, <<101, NaN, 98>>, <<101, 100, NaN>>}
Closes == {97, 99, 102}
\* macd, macd_signal, macd_diff of the last candle; macd, macd_signal before it
MacdCases ==
    {<<2, 1, 1, 1, 2>>, <<2, 1, 1, 3, 1>>, <<1, 2, -1, 2, 1>>, <<NaN, NaN, NaN, 1, 2>>}
\* close of the three candles before the last, ema_fast two candles before it,
\* ema_fast and ema_medium of the candle before it
Histories ==
    {<<96, 104, 95, 97, 99, 100>>, <<103, 95, 104, 102, 101, 100>>,
     <<100, 100, 100, 100, 101, 100>>, <<96, 104, 95, 97, 101, 100>>}
\* bb_lower, bb_upper
Bands == {<<90, 110>>, <<103, 110>>, <<90, 96>>, <<99, 99>>}
Rsis == {NaN, 25, 55, 75}
\* volume, volume_ma
Volumes == {<<5, 10>>, <<11, 10>>, <<18, 10>>, <<0, 0>>}
\* the last candle's timestamp: 03:00, 12:00 and 20:00, without timezone
CandleTimes == {Timestamp(180, None), Timestamp(720, None), Timestamp(1200, None)}
SignalThresholds == {70, 40}

Frame(len, ema, close, macd, hist, band, rsi, vol, ts) ==
    [len |-> len,
     current |-> [timestamp |-> ts, close |-> close,
                  ema_fast |-> ema[1], ema_medium |-> ema[2], ema_slow |-> ema[3],
                  macd |-> macd[1], macd_signal |-> macd[2], macd_diff |-> macd[3],
                  bb_lower |-> band[1], bb_upper |-> band[2],
                  rsi |-> rsi, volume |-> vol[1], volume_ma |-> vol[2]],
     previous |-> [close |-> hist[1], ema_fast |-> hist[5], ema_medium |-> hist[6],
                   macd |-> macd[4], macd_signal |-> macd[5]],
     third |-> [close |-> hist[2], ema_fast |-> hist[4]],
     fourth |-> [close |-> hist[3]]]

\* The series of full length, and shorter ones (whose rows the strategy never
\* gets to read) with the last candles of a strong rising market
FullFrames ==
    {Frame(ema_slow, ema, close, macd, hist, band, rsi, vol, ts) :
         <<ema, close, macd, hist, band, rsi, vol, ts>> \in
             EmaTriples \X Closes \X MacdCases \X Histories \X Bands \X Rsis
                 \X Volumes \X CandleTimes}
ShortLens == {0, 3, 20, 49}
ShortFrames ==
    {Frame(len, <<101, 100, 98>>, 102, <<2, 1, 1, 1, 2>>, hist, <<90, 110>>, rsi,
           <<18, 10>>, ts) :
         <<len, hist, rsi, ts>> \in ShortLens \X Histories \X Rsis \X CandleTimes}

\* The calls of calculate_signal_strength (on a frame with its indicators, of
\* at least three candles; the timestamp is not read, the session's parameters
\* are passed) and of get_signal
StrengthCalls ==
    [fn : {"calculate_signal_strength"},
     df : {add_indicators(df) :
               df \in {f \in FullFrames \cup ShortFrames :
                          f.len >= 3 /\ f.current.timestamp = Timestamp(180, None)}},
     session : Sessions]
SignalCalls ==
    [fn : {"get_signal"}, df : FullFrames \cup ShortFrames,
     signal_threshold : SignalThresholds]

\* calculate_signal_strength applied to the arguments of the call
CallSignalStrength ==
    /\ fcall.fn = "calculate_signal_strength"
    /\ fresult.fn = "none"
    /\ fresult' = [fn |-> "calculate_signal_strength"]
                      @@ calculate_signal_strength(fcall.df,
                                                   get_session_parameters(fcall.session))
    /\ UNCHANGED <<trending_coins, positions, positions_lock, mainVars, workerVars,
                   scanVars, execVars, cmdVars, notifyVars, fcall>>

\* get_signal applied to the arguments of the call
CallGetSignal ==
    /\ fcall.fn = "get_signal"
    /\ fresult.fn = "none"
    /\ \E tie_long \in BOOLEAN, tie_short \in BOOLEAN :
           fresult' = get_signal(fcall.df, fcall.signal_threshold,
                                 [tie_long |-> tie_long, tie_short |-> tie_short])
    /\ UNCHANGED <<trending_coins, positions, positions_lock, mainVars, workerVars,
                   scanVars, execVars, cmdVars, notifyVars, fcall>>

\* One call of one of the strategy's functions, on a bot that does nothing else
InitSignal ==
    /\ trending_coins = <<>>
    /\ positions = <<>>
    /\ positions_lock = {}
    /\ mpc = "off"
    /\ all_positions = <<>>
    /\ backoff = 0
    /\ interrupted = FALSE
    /\ handler_running = FALSE
    /\ pending = {}
    /\ signals = <<>>
    /\ failed = {}
    /\ IdleWorkers
    /\ IdleExec
    /\ IdleCmd
    /\ IdleNotifier
    /\ fcall \in SessionCalls \cup ParameterCalls \cup StrengthCalls \cup SignalCalls
    /\ fresult = [fn |-> "none"]

NextSignal ==
    \/ CallGetSession
    \/ CallGetSessionParameters
    \/ CallSignalStrength
    \/ CallGetSignal

SpecSignal == InitSignal /\ [][NextSignal]_vars

\* ------------------------------------------ execute_trade_coin: the quantity
\* A quantity is a number of 1/QtyScale; balance, prices and order values are
\* whole USDT.  A quantity that is not yet rounded is a quotient num / den
QtyScale == 10000
POSITION_SIZE_PCT == 20
LEVERAGE == 5
Quotient(num, den) == [num |-> num, den |-> den]

\* A float holds a quantity exactly when it is a multiple of 1/16: products
\* and quotients of such quantities with whole numbers are exact as well
Dyadic(q) == (16 * q) % QtyScale = 0

\* math.floor(calculated_qty / qty_step) and math.ceil(required_qty / qty_step).
\* The quotient is a float: where the exact quotient is a whole number the float
\* may lie just below it (floor: low) or just above it (ceil: high)
FloatFloor(num, den, low) ==
    IF num % den = 0 /\ low THEN (num \div den) - 1 ELSE num \div den

\* (mutant) the ceiling overshoots by whole steps
CeilOvershoot(num, den, high) == (num \div den) + 3

\* math.ceil(required_qty / qty_step)
FloatCeil(num, den, high) ==
    IF num % den = 0
    THEN (IF high THEN (num \div den) + 1 ELSE num \div den)
    ELSE (num \div den) + 1

\* order_value < min_order_value for a quantity q of whole units: the float
\* product of a quantity that no float holds exactly may compare below a
\* minimum it equals (low)
ValueBelow(q, entry_price, min_order_value, low) ==
    \/ q * entry_price < min_order_value * QtyScale
    \/ q * entry_price = min_order_value * QtyScale /\ low /\ ~Dyadic(q)

\* The grain of the printed quantity: whole numbers for a step of at least 1,
\* one, two or three decimals for a step of at least 0.1, 0.01, 0.001, and
\* eight decimals (finer than any quantity here) below that
FormatGrain(qty_step) ==
    IF qty_step >= QtyScale THEN QtyScale
    ELSE IF 10 * qty_step >= QtyScale THEN QtyScale \div 10
    ELSE IF 100 * qty_step >= QtyScale THEN QtyScale \div 100
    ELSE IF 1000 * qty_step >= QtyScale THEN QtyScale \div 1000
    ELSE 1

\* float(qty) of the printed quantity: str(int(q)) cuts the fraction off, the
\* f-string rounds to the nearest grain.  Only multiples of 0.25 fall halfway
\* here; floats hold them exactly, so they go to the even digit
FormatQty(calculated_qty, qty_step) ==
    LET grain == FormatGrain(qty_step)
        q == calculated_qty \div grain
        r == calculated_qty % grain
    IN  IF qty_step >= QtyScale THEN q * grain
        ELSE IF 2 * r < grain THEN q * grain
        ELSE IF 2 * r > grain THEN (q + 1) * grain
        ELSE (IF q % 2 = 0 THEN q ELSE q + 1) * grain

\* execute_trade_coin from get_wallet_balance to place_order: the quantity that
\* is computed, the quantity that is printed, and whether the order is placed
\* or the final verification raises.  balance is None when the balance cannot
\* be read; env holds the outcomes of the float operations
OrderQuantity(balance, entry_price, min_qty, qty_step, min_order_value, env) ==
    LET position_value ==
            IF balance = None THEN 0
            ELSE (balance[1] * POSITION_SIZE_PCT * LEVERAGE) \div 100
        \* calculated_qty = position_value / entry_price, or the fallback
        q0 == IF balance = None THEN Quotient(min_order_value * QtyScale, entry_price)
              ELSE Quotient(position_value * QtyScale, entry_price)
        \* raised to min_order_value / entry_price
        q1 == IF q0.num < min_order_value * QtyScale
              THEN Quotient(min_order_value * QtyScale, entry_price) ELSE q0
        \* raised to min_qty
        q2 == IF q1.num < min_qty * q1.den THEN Quotient(min_qty, 1) ELSE q1
        \* the balance times 0.20 and a step no float holds are inexact
        floored == FloatFloor(q2.num, q2.den * qty_step,
                              env.floor_low /\ (balance # None \/ ~Dyadic(qty_step)))
                       * qty_step
        q3 == IF floored < min_qty THEN min_qty ELSE floored
        q4 == IF ValueBelow(q3, entry_price, min_order_value, env.value_low)
              THEN FloatCeil(min_order_value * QtyScale, entry_price * qty_step,
                             env.ceil_high /\ ~Dyadic(qty_step)) * qty_step
              ELSE q3
        qty == FormatQty(q4, qty_step)
    IN  [fn |-> "execute_trade_coin",
         calculated_qty |-> q4,
         qty |-> qty,
         outcome |-> IF ValueBelow(qty, entry_price, min_order_value, env.check_low)
                     THEN "raise" ELSE "place_order"]

\* The wallet balances, prices and instrument filters (min_qty and qty_step
\* in 1/QtyScale; min_order_value) the quantity is computed from
Balances == {1, 3, 10, 30, 100, 1000}
OrderPrices == {1, 3, 7, 25, 100, 3333, 50000}
LotSizes ==
    {<<1, 1>>, <<10, 10>>, <<1000, 1000>>, <<2500, 2500>>, <<10000, 10000>>,
     <<3000, 1000>>}
MinOrderValues == {1, 5, 10}
QuantityCalls ==
    [fn : {"execute_trade_coin"},
     balance : {None} \cup {Some(b) : b \in Balances},
     entry_price : OrderPrices,
     lot : LotSizes,
     min_order_value : MinOrderValues]

\* The quantity part of execute_trade_coin applied to the arguments of the call
CallOrderQuantity ==
    /\ fcall.fn = "execute_trade_coin"
    /\ fresult.fn = "none"
    /\ \E floor_low \in BOOLEAN, value_low \in BOOLEAN, ceil_high \in BOOLEAN,
          check_low \in BOOLEAN :
           fresult' = OrderQuantity(fcall.balance, fcall.entry_price, fcall.lot[1],
                                    fcall.lot[2], fcall.min_order_value,
                                    [floor_low |-> floor_low, value_low |-> value_low,
                                     ceil_high |-> ceil_high, check_low |-> check_low])
    /\ UNCHANGED <<trending_coins, positions, positions_lock, mainVars, workerVars,
                   scanVars, execVars, cmdVars, notifyVars, fcall>>

\* One computation of an order quantity, on a bot that does nothing else
InitQty ==
    /\ trending_coins = <<>>
    /\ positions = <<>>
    /\ positions_lock = {}
    /\ mpc = "off"
    /\ all_positions = <<>>
    /\ backoff = 0
    /\ interrupted = FALSE
    /\ handler_running = FALSE
    /\ pending = {}
    /\ signals = <<>>
    /\ failed = {}
    /\ IdleWorkers
    /\ IdleExec
    /\ IdleCmd
    /\ IdleNotifier
    /\ fcall \in QuantityCalls
    /\ fresult = [fn |-> "none"]

NextQty == CallOrderQuantity

SpecQty == InitQty /\ [][NextQty]_vars

\* ------------------------- the execute phase with the sizing of each order
\* (mutant) an order value below the minimum goes on to place_order
OrderRaisedPlaces == "x_place"

\* execute_trade_coin: where raise Exception("Order value ... is below
\* minimum ...") leads: the except Exception handler of the function
OrderRaisedPc == "x_except"

\* What the exchange reports for the signal's coin when the order is sized:
\* the available balance, the price in whole USDT (the ledger keeps the same
\* price in quanta), and the instrument's min_qty, qty_step and min_order_value
SizingCalls ==
    [fn : {"execute_trade_coin"},
     balance : {Some(1), Some(1000)},
     entry_price : {4, 50000},
     lot : {<<10, 10>>, <<2500, 2500>>},
     min_order_value : {1, 5}]

\* execute_trade_coin from get_minimum_order_size to the final verification,
\* for the signal the thread executes: the quantity is computed and printed,
\* and the call goes on to place_order or raises
ExecSizeQty(t) ==
    /\ xpc[t] = "x_size"
    /\ \E call \in SizingCalls, floor_low \in BOOLEAN, value_low \in BOOLEAN,
          ceil_high \in BOOLEAN, check_low \in BOOLEAN :
         LET result == OrderQuantity(call.balance, call.entry_price, call.lot[1],
                                     call.lot[2], call.min_order_value,
                                     [floor_low |-> floor_low, value_low |-> value_low,
                                      ceil_high |-> ceil_high, check_low |-> check_low])
         IN  /\ fcall' = [fn |-> call.fn, symbol |-> xsig[t].symbol,
                          balance |-> call.balance, entry_price |-> call.entry_price,
                          lot |-> call.lot, min_order_value |-> call.min_order_value]
             /\ fresult' = result
             /\ xpc' = [xpc EXCEPT ![t] = IF result.outcome = "raise"
                                           THEN OrderRaisedPc ELSE "x_place"]
    /\ UNCHANGED <<positions, positions_lock, mainVars, workerVars, scanVars, xsig,
                   xplaced, xout, cmdVars, notifyVars>>

\* The signals one scan leaves to execute: one per coin, in completion order
SignalLists ==
    {<<a>> : a \in {Signal(s, side, e) : <<s, side, e>> \in Symbols \X {"BUY", "SELL"} \X EntryPrices}}
    \cup {<<a, b>> : <<a, b>> \in
            {<<Signal(s, sd, e), Signal(r, sr, e)>> :
                <<s, sd, r, sr, e>> \in Symbols \X {"BUY", "SELL"} \X Symbols
                                          \X {"BUY", "SELL"} \X EntryPrices}
            \ {<<x, y>> \in [symbol : Symbols, side : {"BUY", "SELL"},
                             entry_price : EntryPrices]
                            \X [symbol : Symbols, side : {"BUY", "SELL"},
                                entry_price : EntryPrices] : x.symbol = y.symbol}}

\* run() as the scan has returned its signals, with an empty ledger
InitOrder ==
    /\ trending_coins = [i \in 1..NumSymbols |-> i]
    /\ positions = <<>>
    /\ positions_lock = {}
    /\ mpc = "exec_next"
    /\ all_positions = <<>>
    /\ backoff = 0
    /\ interrupted = FALSE
    /\ handler_running = TRUE
    /\ pending = {}
    /\ signals \in SignalLists
    /\ failed = {}
    /\ IdleWorkers
    /\ IdleExec
    /\ IdleCmd
    /\ IdleNotifier
    /\ IdleFn

NextOrder ==
    \/ ExecuteNext
    \/ ExecuteReturn
    \/ ExecAcquire(Main)
    \/ ExecCheck(Main)
    \/ ExecSizeQty(Main)
    \/ ExecPlace(Main)
    \/ ExecGetPositions(Main)
    \/ ExecSetTpSl(Main)
    \/ ExecStoreAcquire(Main)
    \/ ExecStore(Main)
    \/ ExecChart(Main)
    \/ ExecExcept(Main)

SpecOrder == InitOrder /\ [][NextOrder]_vars

\* --------------------------------- the monitor phase against the exchange
Abs(x) == IF x < 0 THEN 0 - x ELSE x

\* BybitClient.close_position(symbol, side) on the list get_positions(symbol)
\* returned: the order it sends to /v5/order/create, or the exception it
\* raises when the list is empty.  The side is the opposite of the sign of
\* the size unless a side is passed (if side: close_side = side)
close_position(open_positions, side) ==
    IF open_positions = <<>>
    THEN [fn |-> "close_position", outcome |-> "raise", side |-> "", qty |-> 0,
          reduceOnly |-> FALSE]
    ELSE LET position_size == open_positions[1].size
             opposite == IF position_size > 0 THEN "Sell" ELSE "Buy"
         IN  [fn |-> "close_position", outcome |-> "order",
              side |-> IF side # None /\ side[1] # "" THEN side[1] ELSE opposite,
              qty |-> Abs(position_size), reduceOnly |-> TRUE]

\* The exchange's open position of symbol s, as get_positions(s) lists it
Held(s) == fcall.held[s]

\* The exchange after it accepted an order for s: a reduce-only order against
\* the position's direction closes it; any other leaves it as it is
AfterOrder(s, order) ==
    IF Held(s) # <<>> /\ order.reduceOnly /\ order.side # Held(s)[1].side
    THEN [fcall EXCEPT !.held[s] = <<>>]
    ELSE fcall

\* close_position_coin: self.client.close_position(symbol, side) with the
\* side of the ledger entry.  get_positions or the order request may fail,
\* the exchange may reject the order (retCode != 0), or it accepts it
CloseExchangeCall(s) ==
    /\ wpc[s] = "c_exchange"
    /\ fcall.fn = "get_positions"
    /\ LET order == close_position(Held(s), Some(wpos[s].side))
           result == [fn |-> order.fn, symbol |-> s, position_side |-> wpos[s].side,
                      outcome |-> order.outcome, side |-> order.side,
                      qty |-> order.qty, reduceOnly |-> order.reduceOnly]
       IN  \/ /\ order.outcome = "order"
              /\ fresult' = result
              /\ fcall' = AfterOrder(s, order)
              /\ wclosed' = [wclosed EXCEPT ![s] = TRUE]
              /\ wpc' = [wpc EXCEPT ![s] = "c_report"]
           \/ /\ order.outcome = "order"
              /\ fresult' = [result EXCEPT !.outcome = "rejected"]
              /\ fcall' = fcall
              /\ wclosed' = wclosed
              /\ wpc' = [wpc EXCEPT ![s] = CloseFailedPc]
           \/ /\ fresult' = [result EXCEPT !.outcome = "raise", !.side = "", !.qty = 0,
                                           !.reduceOnly = FALSE]
              /\ fcall' = fcall
              /\ wclosed' = wclosed
              /\ wpc' = [wpc EXCEPT ![s] = CloseFailedPc]
    /\ UNCHANGED <<positions, positions_lock, mainVars, wpos, wprice, wreason,
                   wnotified, scanVars, execVars, cmdVars, notifyVars>>

\* What the exchange may hold for a coin: nothing (the position was closed on
\* the exchange, for instance by its attached TP/SL), or a position
HeldLists ==
    {<<>>} \cup {<<Snapshot(0, z[1], z[2], e)>> : <<z, e>> \in SideSizes \X EntryPrices}

\* The run loop as a cycle starts, with a ledger entry for every coin, an
\* exchange that holds positions of its own accord, and no coin to scan
InitClose ==
    /\ trending_coins = <<>>
    /\ \E sides \in [Symbols -> Sides] :
         positions = [s \in Symbols |-> PosData(40, sides[s])]
    /\ positions_lock = {}
    /\ mpc = "cycle_acquire"
    /\ all_positions = <<>>
    /\ backoff = 0
    /\ interrupted = FALSE
    /\ handler_running = TRUE
    /\ pending = {}
    /\ signals = <<>>
    /\ failed = {}
    /\ IdleWorkers
    /\ IdleExec
    /\ IdleCmd
    /\ IdleNotifier
    /\ fcall \in [fn : {"get_positions"}, held : [Symbols -> HeldLists]]
    /\ fresult = [fn |-> "none"]

NextClose ==
    \/ CycleAcquire
    \/ CycleLen
    \/ MonitorAllAcquire
    \/ MonitorAllSubmit
    \/ MonitorAllJoin
    \/ \E s \in MonWorkers :
         \/ MonAcquire(s)
         \/ MonRead(s)
         \/ MonPrice(s)
         \/ MonCheck(s)
         \/ CloseAcquire(s)
         \/ CloseRead(s)
         \/ CloseExchangeCall(s)
         \/ CloseReport(s)
         \/ CloseRemoveAcquire(s)
         \/ CloseRemove(s)
         \/ CloseExcept(s)
         \/ CloseReturn(s)
    \/ ScanSubmit
    \/ ScanJoin
    \/ NoSignalReport

SpecClose == InitClose /\ [][NextClose]_vars

\* Every thread that can take a step takes one eventually
SpecCloseFair == SpecClose /\ WF_vars(NextClose)

\* ------------------------------- the run loop with the outcome of set_tp_sl
\* (mutant) a failed set_tp_sl reaches the handler of execute_trade_coin
TpSlFailedAborts == "x_except"

\* execute_trade_coin: where the inner except of set_tp_sl leaves the call
\* ("Continue anyway, we'll monitor manually")
TpSlFailedPc == "x_store_acquire"

\* client.set_tp_sl(symbol, tp_price, sl_price) as a call on record: the
\* levels that were passed, and whether it returned or raised
SetTpSl(symbol, levels, outcome) ==
    [fn |-> "set_tp_sl", symbol |-> symbol, tp_price |-> levels.tp_price,
     sl_price |-> levels.sl_price, outcome |-> outcome]

\* execute_trade_coin: client.set_tp_sl inside its own try block
ExecSetTpSlCall(t) ==
    /\ xpc[t] = "x_set_tp_sl"
    /\ LET levels == calculate_fixed_tp_sl(xsig[t].entry_price, BybitSide(xsig[t].side))
       IN  \/ /\ fresult' = SetTpSl(xsig[t].symbol, levels, "set")
              /\ xpc' = [xpc EXCEPT ![t] = "x_store_acquire"]
           \/ /\ fresult' = SetTpSl(xsig[t].symbol, levels, "raise")
              /\ xpc' = [xpc EXCEPT ![t] = TpSlFailedPc]
    /\ UNCHANGED <<positions, positions_lock, mainVars, workerVars, scanVars, xsig,
                   xplaced, xout, cmdVars, notifyVars, fcall>>

\* check_existing_positions, one pass of the loop body: client.set_tp_sl in
\* its own try block, then the store
CheckExistingStoreCall ==
    /\ mpc = "ce_set_tp_sl"
    /\ positions_lock = {Main}
    /\ LET pos == Head(all_positions)
       IN  /\ positions' = Put(positions, pos.symbol, ExistingEntry(pos))
           /\ \E outcome \in {"set", "raise"} :
                fresult' = SetTpSl(pos.symbol, ExistingEntry(pos), outcome)
    /\ all_positions' = Tail(all_positions)
    /\ mpc' = IF Tail(all_positions) = <<>> THEN "ce_release" ELSE "ce_set_tp_sl"
    /\ UNCHANGED <<trending_coins, positions_lock, backoff, interrupted,
                   handler_running, workerVars, scanVars, execVars, cmdVars,
                   notifyVars, fcall>>

NextStore ==
    \/ RunGetTrending
    \/ CheckExistingFetch
    \/ CheckExistingAcquire
    \/ CheckExistingStoreCall
    \/ CheckExistingRelease
    \/ CheckExistingReturn
    \/ StartHandler
    \/ CycleAcquire
    \/ CycleLen
    \/ MonitorAllAcquire
    \/ MonitorAllSubmit
    \/ MonitorAllJoin
    \/ \E s \in MonWorkers :
         \/ MonAcquire(s)
         \/ MonRead(s)
         \/ MonPrice(s)
         \/ MonCheck(s)
         \/ CloseAcquire(s)
         \/ CloseRead(s)
         \/ CloseExchange(s)
         \/ CloseReport(s)
         \/ CloseRemoveAcquire(s)
         \/ CloseRemove(s)
         \/ CloseExcept(s)
         \/ CloseReturn(s)
    \/ ScanSubmit
    \/ \E s \in Symbols : AnalyzeCoin(s)
    \/ ScanJoin
    \/ NoSignalReport
    \/ ExecuteNext
    \/ ExecuteReturn
    \/ ExecAcquire(Main)
    \/ ExecCheck(Main)
    \/ ExecSize(Main)
    \/ ExecPlace(Main)
    \/ ExecGetPositions(Main)
    \/ ExecSetTpSlCall(Main)
    \/ ExecStoreAcquire(Main)
    \/ ExecStore(Main)
    \/ ExecChart(Main)
    \/ ExecExcept(Main)

SpecStore == Init /\ [][NextStore]_vars

\* ----------------------------------- the execute phase after a wide scan
\* run() as a scan of the tracked coins has returned a signal for each of
\* NumCoins coins, with an empty ledger
InitExposure ==
    /\ trending_coins = [i \in 1..NumCoins |-> i]
    /\ positions = <<>>
    /\ positions_lock = {}
    /\ mpc = "exec_next"
    /\ all_positions = <<>>
    /\ backoff = 0
    /\ interrupted = FALSE
    /\ handler_running = TRUE
    /\ pending = {}
    /\ \E sides \in [1..NumCoins -> {"BUY", "SELL"}] :
         signals = [i \in 1..NumCoins |-> Signal(i, sides[i], 40)]
    /\ failed = {}
    /\ IdleWorkers
    /\ IdleExec
    /\ IdleCmd
    /\ IdleNotifier
    /\ IdleFn

NextExposure ==
    \/ ExecuteNext
    \/ ExecuteReturn
    \/ ExecAcquire(Main)
    \/ ExecCheck(Main)
    \/ ExecSize(Main)
    \/ ExecPlace(Main)
    \/ ExecGetPositions(Main)
    \/ ExecSetTpSl(Main)
    \/ ExecStoreAcquire(Main)
    \/ ExecStore(Main)
    \/ ExecChart(Main)
    \/ ExecExcept(Main)

SpecExposure == InitExposure /\ [][NextExposure]_vars

\* ===================================================================== claims
TakeProfit == "Take Profit hit"
StopLoss == "Stop Loss hit"

\* C1: an execute_trade_coin call for a symbol that already has an entry in the
\* ledger places no exchange order and leaves the ledger unchanged: from the
\* call's start through its check the ledger stays as it is, and the check ends
\* the call with no order placed.
C1_SkipWhenOpen ==
    [][\A t \in ExecThreads :
         (xpc[t] \in {"x_acquire", "x_check"} /\ xsig[t].symbol \in DOMAIN positions)
         => /\ positions' = positions
            /\ xplaced'[t] = FALSE
            /\ xpc'[t] \in {"x_acquire", "x_check", "x_done", "idle"}
            /\ (xpc'[t] = "x_done" => xout'[t] = "skipped")]_vars

\* C1 witness: a call has just been skipped, its symbol's entry in place
C1_Witness ==
    /\ xpc[Main] = "x_done"
    /\ xout[Main] = "skipped"
    /\ xsig[Main].symbol \in DOMAIN positions

\* C2 (as claimed): under concurrent execute_trade_coin calls an open attempt on
\* a symbol that is already Open is rejected: no call stores a ledger entry over
\* an entry that is already there.
C2_NoOverwrite ==
    [][\A t \in ExecThreads :
         (xpc[t] = "x_store" /\ xpc'[t] = "x_chart")
         => xsig[t].symbol \notin DOMAIN positions]_vars

\* C3 (as claimed): whenever the exchange close of close_position_coin has
\* succeeded, the symbol's entry is gone from the ledger when the call returns,
\* also when it returns through its exception handler.
C3_RemovedAfterClose ==
    \A s \in MonWorkers :
        (wpc[s] = "c_return" /\ wclosed[s]) => s \notin DOMAIN positions

\* C4: a ledger entry is removed only by close_position_coin's removal step of
\* that symbol, after its exchange close has returned; when the exchange close
\* fails the call goes to its handler, the entry stays as it was read, and the
\* handler calls send_error_sync before the call returns.
C4_RemoveOnlyAfterClose ==
    /\ [](\A s \in MonWorkers :
            /\ (wpc[s] \in {"c_except", "c_return"} /\ ~wclosed[s])
               => (s \in DOMAIN positions /\ positions[s] = wpos[s])
            /\ wpc[s] = "c_return" => wnotified[s])
    /\ [][\A s \in Symbols :
            /\ (s \in DOMAIN positions /\ s \notin DOMAIN positions')
               => (wpc[s] = "c_remove" /\ wclosed[s])
            /\ (wpc[s] = "c_exchange" /\ wpc'[s] # "c_exchange" /\ ~wclosed'[s])
               => (wpc'[s] = "c_except" /\ positions' = positions)]_vars

\* C4 witness: an exchange close has failed, the handler has notified, and the
\* entry is still in the ledger
C4_Witness ==
    \E s \in MonWorkers :
        wpc[s] = "c_return" /\ ~wclosed[s] /\ wnotified[s] /\ s \in DOMAIN positions

\* C5 (as claimed): whenever place_order has succeeded in an execute_trade_coin
\* call, the ledger holds an entry for the symbol when the call returns.
C5_OrderTracked ==
    \A t \in ExecThreads :
        (xpc[t] = "x_done" /\ xplaced[t]) => xsig[t].symbol \in DOMAIN positions

\* C6: monitor_position_coin initiates a close exactly when the side's trigger
\* holds: Buy closes at price >= tp_price (Take Profit) or price <= sl_price
\* (Stop Loss), Sell at price <= tp_price (Take Profit) or price >= sl_price
\* (Stop Loss); a price equal to a level triggers it, and a price strictly
\* between the levels closes nothing.
C6_Trigger ==
    [][\A s \in MonWorkers :
         (wpc[s] = "m_check" /\ wpc'[s] # "m_check")
         => LET p == wprice[s]
                tp == wpos[s].tp_price
                sl == wpos[s].sl_price
                closes == wpc'[s] = "c_acquire"
                reason == wreason'[s]
            IN  /\ wpos[s] = positions[s]
                /\ wpos[s].side = "Buy" =>
                     /\ closes <=> (p >= tp \/ p <= sl)
                     /\ p >= tp => reason = TakeProfit
                     /\ p <= sl => reason = StopLoss
                /\ wpos[s].side = "Sell" =>
                     /\ closes <=> (p <= tp \/ p >= sl)
                     /\ p <= tp => reason = TakeProfit
                     /\ p >= sl => reason = StopLoss
                /\ closes \/ wpc'[s] = "idle"
                /\ ~closes => reason = ""]_vars

\* C6 witness: a close was initiated as Take Profit at a price equal to tp_price
C6_Witness ==
    \E s \in MonWorkers :
        /\ wpc[s] = "c_acquire"
        /\ wprice[s] = wpos[s].tp_price
        /\ wreason[s] = TakeProfit

\* C7 (as claimed): no thread is at an exchange or network call while it holds
\* positions_lock.
C7_NoNetworkUnderLock ==
    \A t \in Threads : t \in positions_lock => ~AtNetworkCall(t)

\* C8 (as claimed): every read and every write of the positions mapping is done
\* by a thread that holds positions_lock.
C8_AccessUnderLock ==
    \A t \in Threads : AtPositionsAccess(t) => positions_lock = {t}

\* C9: the phases of a cycle do not overlap: while the scan runs no monitor
\* worker is running and no trade is being executed; while a trade is executed
\* no monitor or scan worker is running; and at most one execute_trade_coin
\* call is in progress.
C9_PhasesOrdered ==
    /\ (mpc \in {"scan", "scan_join"} \/ pending # {})
       => (WorkersDone /\ \A t \in ExecThreads : xpc[t] = "idle")
    /\ (\E t \in ExecThreads : xpc[t] # "idle")
       => /\ mpc = "exec_call"
          /\ WorkersDone
          /\ pending = {}
          /\ Cardinality({t \in ExecThreads : xpc[t] # "idle"}) = 1
    /\ mpc \in {"exec_next", "exec_call", "no_signal"} => (WorkersDone /\ pending = {})

\* C9 witness: a trade is being executed in a cycle that monitored a position
C9_Witness ==
    /\ mpc = "exec_call"
    /\ xpc[Main] = "x_place"
    /\ DOMAIN positions # {}

\* C10: an exception of a cycle does not end the loop: from the handler the
\* main thread goes into the 60-second backoff and from there to the next
\* cycle, unless a KeyboardInterrupt arrives; and the loop is left only by a
\* KeyboardInterrupt.
C10_LoopSurvives ==
    [][/\ (mpc = "loop_except" /\ mpc' # "loop_except" /\ ~interrupted')
          => (mpc' = "backoff" /\ backoff' = BackoffSeconds)
       /\ (mpc = "backoff" /\ mpc' # "backoff" /\ ~interrupted')
          => mpc' = "cycle_acquire"
       /\ (mpc \in RaisePcs /\ mpc' \notin TryPcs /\ ~interrupted')
          => mpc' = "loop_except"
       /\ (mpc \notin {"stopped", "aborted"} /\ mpc' \in {"stopped", "aborted"})
          => (~interrupted /\ interrupted')]_vars

\* C10 witness: the loop is in its backoff after a failed cycle
C10_Witness == mpc = "backoff" /\ backoff = BackoffSeconds

\* C11: a failure while scanning or monitoring one symbol does not abort the
\* batch.  Scan: a symbol's caught failure leaves the scan in progress with the
\* signals collected so far and the other symbols still to analyse; no signal
\* collected is dropped while the scan runs; and the scan is left (other than by
\* a KeyboardInterrupt) only when every symbol has been analysed.  Monitor: a
\* worker's failed price fetch or failed close changes no other worker, and the
\* monitor phase is left only when every worker has returned.
C11_FailureIsolated ==
    [][/\ \A s \in Symbols :
            (s \notin failed /\ s \in failed')
            => /\ mpc' = "scan_join"
               /\ pending' = pending \ {s}
               /\ signals' = signals
       /\ (mpc = "scan_join" /\ mpc' = "scan_join")
            => /\ Len(signals') >= Len(signals)
               /\ SubSeq(signals', 1, Len(signals)) = signals
       /\ (mpc = "scan_join" /\ mpc' # "scan_join" /\ ~interrupted')
            => /\ pending = {}
               /\ signals' = signals
               /\ mpc' \in {"exec_next", "no_signal"}
       /\ \A s \in MonWorkers :
            ((wpc[s] = "m_price" /\ wpc'[s] = "idle") \/
             (wpc[s] = "c_exchange" /\ wpc'[s] = "c_except"))
            => /\ \A r \in MonWorkers \ {s} :
                    wpc'[r] = wpc[r] /\ wpos'[r] = wpos[r] /\ wreason'[r] = wreason[r]
               /\ mpc' = mpc
       /\ (mpc = "mon_join" /\ mpc' # "mon_join" /\ ~interrupted')
            => (WorkersDone /\ mpc' = "scan")]_vars

\* C11 witness: in one scan a symbol's analysis has failed, every symbol has
\* been analysed, and a signal of another symbol is among the results
C11_Witness ==
    /\ mpc = "scan_join"
    /\ pending = {}
    /\ failed # {}
    /\ \E i \in DOMAIN signals : signals[i].symbol \notin failed

\* C12 (as claimed): check_existing_positions stores, for every position the
\* exchange reports, an entry for that symbol with the side of the exchange
\* position, its average entry price and the TP/SL computed from that price and
\* side, and adds no other symbol.
C12_ReconciledAsReported ==
    [][(mpc = "ce_set_tp_sl" /\ all_positions' # all_positions /\ ~interrupted')
         => LET pos == Head(all_positions)
            IN  /\ DOMAIN positions' = DOMAIN positions \cup {pos.symbol}
                /\ positions'[pos.symbol] = PosData(pos.avgPrice, pos.side)]_vars

\* C13: get_status_report and get_coin_detail_report, started and finished at
\* any point of the run loop, leave the positions ledger unchanged: no step in
\* which a report starts or returns changes the ledger, and the ledger changes
\* only in the store of check_existing_positions, the store of
\* execute_trade_coin and the removal of close_position_coin.
C13_ReportsReadOnly ==
    [][/\ rpc' # rpc => positions' = positions
       /\ positions' # positions
            => \/ mpc = "ce_set_tp_sl"
               \/ \E t \in ExecThreads : xpc[t] = "x_store"
               \/ \E s \in MonWorkers : wpc[s] = "c_remove"]_vars

\* C13 witness: a report is being generated while a monitor worker is between
\* its exchange close and the removal of its entry
C13_Witness ==
    /\ rpc = "busy"
    /\ \E s \in MonWorkers : wpc[s] = "c_report" /\ s \in DOMAIN positions

C15_Cooldown ==
    [][nout' # nout
         => LET key == ErrorKey(nout'.message)
                recently == /\ key \in DOMAIN delivered
                            /\ now - delivered[key] < error_cooldown_seconds
            IN  /\ recently => nout'.outcome = "suppressed"
                /\ ~recently => nout'.outcome \in {"sent", "failed"}]_vars

\* C16 (as claimed): for every entry_price > 0, calculate_fixed_tp_sl returns
\* tp_price > entry_price > sl_price for side Buy and sl_price > entry_price >
\* tp_price for side Sell, rounding included.
C16_StrictOrder ==
    fresult.fn = "calculate_fixed_tp_sl"
        => IF fcall.side = "Buy"
           THEN /\ fresult.tp_price > fcall.entry_price
                /\ fcall.entry_price > fresult.sl_price
           ELSE /\ fresult.sl_price > fcall.entry_price
                /\ fcall.entry_price > fresult.tp_price

\* C17: with atr_pct given and no percentage override, calculate_tp_sl returns
\* sl_percent = atr_pct x the session's ATR multiplier (asian 1.0, european 1.5,
\* us 2.0) x 100 and tp_percent = sl_percent x the session's reward multiple
\* (asian 1.5, european 2.0, us 2.5); tp_price and sl_price are the entry price
\* offset by those percentages in the side's direction, to the nearest quantum;
\* entry 100, Buy, atr_pct 0.01, european gives sl_price 98.5 and tp_price 103.0.
C17_AtrScaled ==
    (/\ fresult.fn = "calculate_tp_sl"
     /\ fcall.atr_pct # None
     /\ fcall.tp_percent = None
     /\ fcall.sl_percent = None)
        => LET s == fresult.session
               atr == fcall.atr_pct[1]
               mult == CASE s = "asian" -> 10 [] s = "european" -> 15 [] s = "us" -> 20
               reward == CASE s = "asian" -> 15 [] s = "european" -> 20 [] s = "us" -> 25
               e == fcall.entry_price
               whole == 100 * PctScale
               buy == fcall.side \in {"Buy", "buy"}
               tp_exact == IF buy THEN e * (whole + fresult.tp_percent)
                           ELSE e * (whole - fresult.tp_percent)
               sl_exact == IF buy THEN e * (whole - fresult.sl_percent)
                           ELSE e * (whole + fresult.sl_percent)
               Near(price, exact) ==
                   /\ 2 * (price * whole - exact) <= whole
                   /\ 2 * (exact - price * whole) <= whole
           IN  /\ fcall.session # None => s = fcall.session[1]
               /\ fresult.sl_percent * AtrScale * 10 = atr * mult * 100 * PctScale
               /\ fresult.tp_percent * 10 = fresult.sl_percent * reward
               /\ Near(fresult.tp_price, tp_exact)
               /\ Near(fresult.sl_price, sl_exact)
               /\ (/\ e = 100 * PriceScale
                   /\ fcall.side = "Buy"
                   /\ atr * 100 = AtrScale
                   /\ s = "european")
                      => /\ 10 * fresult.sl_price = 985 * PriceScale
                         /\ fresult.tp_price = 103 * PriceScale

\* C17 witness: the call of the example has returned its levels
C17_Witness ==
    /\ fresult.fn = "calculate_tp_sl"
    /\ fcall.entry_price = 100 * PriceScale
    /\ fcall.side = "Buy"
    /\ fcall.atr_pct = Some(AtrScale \div 100)
    /\ fcall.session = Some("european")
    /\ fcall.tp_percent = None
    /\ fcall.sl_percent = None
    /\ fresult.sl_percent = (3 * PctScale) \div 2
    /\ fresult.tp_percent = 3 * PctScale

\* C18 (amended): when atr_pct is not provided, calculate_tp_sl uses, for every
\* session and side, sl_percent 2.5 unless an sl_percent override is passed and
\* tp_percent 5.0 unless a tp_percent override is passed; a passed override is
\* returned as it is.
C18_DefaultsUnlessOverridden ==
    (fresult.fn = "calculate_tp_sl" /\ fcall.atr_pct = None)
        => /\ fresult.sl_percent * 2 =
                  IF fcall.sl_percent = None THEN 5 * PctScale
                  ELSE fcall.sl_percent[1] * 2
           /\ fresult.tp_percent =
                  IF fcall.tp_percent = None THEN 5 * PctScale
                  ELSE fcall.tp_percent[1]

\* C18 witness: a call without atr_pct and without overrides has returned the
\* two defaults
C18_Witness ==
    /\ fresult.fn = "calculate_tp_sl"
    /\ fcall.atr_pct = None
    /\ fcall.tp_percent = None
    /\ fcall.sl_percent = None
    /\ fresult.sl_percent * 2 = 5 * PctScale
    /\ fresult.tp_percent = 5 * PctScale

\* C18 (as claimed): when atr_pct is not provided, calculate_tp_sl returns
\* sl_percent 2.5 and tp_percent 5.0, for every session and side.
C18_AlwaysDefaults ==
    (fresult.fn = "calculate_tp_sl" /\ fcall.atr_pct = None)
        => /\ fresult.sl_percent * 2 = 5 * PctScale
           /\ fresult.tp_percent = 5 * PctScale

\* C19 (as claimed): every result of calculate_tp_sl has tp_percent > 0,
\* sl_percent > 0, tp_price > 0, sl_price > 0, and tp_price > entry_price >
\* sl_price for Buy, sl_price > entry_price > tp_price for Sell, for every
\* entry_price > 0, side, session and atr_pct the function accepts.
C19_LevelsInvariant ==
    (fresult.fn = "calculate_tp_sl" /\ fcall.atr_pct # None)
        => /\ fresult.tp_percent > 0
           /\ fresult.sl_percent > 0
           /\ fresult.tp_price > 0
           /\ fresult.sl_price > 0
           /\ IF Upper(fcall.side) = "BUY"
              THEN /\ fresult.tp_price > fcall.entry_price
                   /\ fcall.entry_price > fresult.sl_price
              ELSE /\ fresult.sl_price > fcall.entry_price
                   /\ fcall.entry_price > fresult.tp_price

\* C20: while a symbol stays in the ledger its side, entry_price, tp_price and
\* sl_price do not change: no step of the run loop (scan, monitor, execute, a
\* close that fails or one that succeeds for another symbol) alters an entry
\* that is present before and after it, and every entry holds the levels
\* calculate_fixed_tp_sl gave for its entry price and side when it was stored.
C20_EntryImmutable ==
    /\ [](\A s \in DOMAIN positions :
              positions[s] = PosData(positions[s].entry_price, positions[s].side))
    /\ [][\A s \in DOMAIN positions \cap DOMAIN positions' :
              positions'[s] = positions[s]]_vars

\* C20 witness: execute_trade_coin has just stored an entry next to an entry of
\* the other side that was in the ledger before
C20_Witness ==
    /\ xpc[Main] = "x_chart"
    /\ xsig[Main].symbol \in DOMAIN positions
    /\ \E s \in DOMAIN positions :
           /\ s # xsig[Main].symbol
           /\ positions[s].side # positions[xsig[Main].symbol].side

\* C21: get_session maps every UTC hour of day to exactly one session: hours
\* 0..8 to asian, 9..16 to european, 17..23 to us; the hour is the wall-clock
\* hour of a timestamp without timezone and the hour of the same instant in UTC
\* for a timestamp with one.
C21_SessionOfHour ==
    fresult.fn = "get_session"
        => /\ fresult.hour \in 0..23
           /\ fresult.hour \in 0..8 <=> fresult.session = "asian"
           /\ fresult.hour \in 9..16 <=> fresult.session = "european"
           /\ fresult.hour \in 17..23 <=> fresult.session = "us"
           /\ fcall.timestamp # None
                  => LET ts == fcall.timestamp[1]
                     IN  IF ts.tz = None
                         THEN fresult.hour = ts.minute \div 60
                         ELSE \E d \in {-1, 0, 1}, m \in 0..59 :
                                  fresult.hour * 60 + m + ts.tz[1]
                                      = ts.minute + d * DayMinutes

\* C21 witness: 02:00 at UTC+9 is hour 17 of the day before in UTC, the first
\* hour of the us session
C21_Witness ==
    /\ fresult.fn = "get_session"
    /\ fcall.timestamp = Some(Timestamp(120, Some(540)))
    /\ fresult.hour = 17
    /\ fresult.session = "us"

\* C22: for every session name, any string other than asian and european being
\* treated as us, the trend_bias and mean_reversion_bias that
\* get_session_parameters returns sum to 1.0.
C22_BiasesSumToOne ==
    fresult.fn = "get_session_parameters"
        => /\ fresult.trend_bias + fresult.mean_reversion_bias = 100
           /\ fcall.session \notin {"asian", "european"}
                  => fresult = [fn |-> "get_session_parameters"]
                                   @@ get_session_parameters("us")

\* C22 witness: a name that is none of the three sessions got the us parameters
C22_Witness ==
    /\ fresult.fn = "get_session_parameters"
    /\ fcall.session = "london"
    /\ fresult.trend_bias = 85
    /\ fresult.mean_reversion_bias = 15

\* What a get_signal call computes once the series is long enough and fast
\* EMA, slow EMA and RSI are defined: the frame with its indicators, the
\* session's parameters, the two strengths and the three filters
SignalScored ==
    /\ fresult.fn = "get_signal"
    /\ fcall.df.len >= 50
    /\ fcall.df.current.ema_fast # NaN
    /\ fcall.df.current.ema_slow # NaN
    /\ fcall.df.current.rsi # NaN
SignalView ==
    LET df == add_indicators(fcall.df)
        hour == fcall.df.current.timestamp.minute \div 60
        params == get_session_parameters(IF hour < 9 THEN "asian"
                                         ELSE IF hour < 17 THEN "european" ELSE "us")
        strength == calculate_signal_strength(df, params)
        ratio == df.current.volume_ratio
    IN  [long |-> strength.long,
         short |-> strength.short,
         threshold |-> fcall.signal_threshold * 1000000,
         volume_ok |-> IF ratio.den = 0 THEN ratio.num > 0
                       ELSE ratio.num * 10 > params.min_volume_mult * ratio.den,
         below_overbought |-> df.current.rsi < params.rsi_overbought,
         above_oversold |-> df.current.rsi > params.rsi_oversold]

\* C23: both outputs of calculate_signal_strength lie in [0,1] for every frame
\* and session; so does the strength get_signal reports; the trend weights
\* with the momentum blend and the mean-reversion weights with the volume blend
\* each total 1.
C23_StrengthInUnitInterval ==
    /\ fresult.fn = "calculate_signal_strength"
           => /\ 0 <= fresult.long /\ fresult.long <= StrengthOne
              /\ 0 <= fresult.short /\ fresult.short <= StrengthOne
    /\ (fresult.fn = "get_signal" /\ fresult.signal # "HOLD")
           => /\ 0 <= fresult.signal_data[1].signal_strength
              /\ fresult.signal_data[1].signal_strength <= StrengthOne
    /\ TrendScore(1, 1, 1, 1, 1, 1, 1, TRUE, 1, 1) = 1000000
    /\ TrendScore(1, 1, 1, 1, 1, 1, 1, FALSE, 0, 0) = 1000000
    /\ MeanReversionScore(1, 1, 1, 1, 1) = 1000000

\* C23 witness: a frame on which every long condition holds scores a long
\* strength of exactly 1 and a short strength above 0
C23_Witness ==
    /\ fresult.fn = "calculate_signal_strength"
    /\ fresult.long = StrengthOne
    /\ fresult.short > 0

\* C24: get_signal returns BUY if and only if long_strength > signal_threshold,
\* volume_ratio > the session's min_volume_mult and RSI < the session's
\* rsi_overbought; when it does not return BUY it returns SELL if and only if
\* short_strength > signal_threshold, volume_ratio > min_volume_mult and RSI >
\* rsi_oversold; otherwise HOLD.  (Where a strength equals the threshold in
\* exact arithmetic the float comparison may go either way.)
C24_SignalRule ==
    SignalScored
        => LET v == SignalView
           IN  /\ fresult.signal \in {"BUY", "SELL", "HOLD"}
               /\ fresult.signal = "BUY"
                      => v.long >= v.threshold /\ v.volume_ok /\ v.below_overbought
               /\ (v.long > v.threshold /\ v.volume_ok /\ v.below_overbought)
                      => fresult.signal = "BUY"
               /\ fresult.signal = "SELL"
                      => v.short >= v.threshold /\ v.volume_ok /\ v.above_oversold
               /\ (/\ fresult.signal # "BUY"
                   /\ v.short > v.threshold /\ v.volume_ok /\ v.above_oversold)
                      => fresult.signal = "SELL"
               /\ fresult.signal = "BUY"
                      => fresult.signal_data[1].signal_strength = v.long
               /\ fresult.signal = "SELL"
                      => fresult.signal_data[1].signal_strength = v.short

\* C24 witness: at the default threshold a candle was answered with SELL, its
\* long strength being below the threshold
C24_Witness ==
    /\ SignalScored
    /\ fcall.signal_threshold = 70
    /\ fresult.signal = "SELL"
    /\ SignalView.long < SignalView.threshold
    /\ SignalView.below_overbought

\* C25: if both the Buy condition and the Sell condition hold for the same
\* candle, get_signal returns BUY.
C25_BuyFirst ==
    (/\ SignalScored
     /\ SignalView.long > SignalView.threshold
     /\ SignalView.short > SignalView.threshold
     /\ SignalView.volume_ok
     /\ SignalView.below_overbought
     /\ SignalView.above_oversold)
        => (fresult.signal = "BUY" /\ fresult.signal_data[1].signal_strength = SignalView.long)

\* C25 witness: with a low threshold both conditions held and BUY was returned
C25_Witness ==
    /\ SignalScored
    /\ SignalView.long > SignalView.threshold
    /\ SignalView.short > SignalView.threshold
    /\ SignalView.volume_ok
    /\ SignalView.below_overbought
    /\ SignalView.above_oversold
    /\ fresult.signal = "BUY"

\* C26: get_signal returns HOLD with no signal data whenever the series is
\* shorter than max(slow EMA window, Bollinger window, volume-MA window) = 50
\* or any of fast EMA, slow EMA, RSI is undefined on the last candle.
C26_HoldWhenUnready ==
    (/\ fresult.fn = "get_signal"
     /\ \/ fcall.df.len < 50
        \/ fcall.df.current.ema_fast = NaN
        \/ fcall.df.current.ema_slow = NaN
        \/ fcall.df.current.rsi = NaN)
        => (fresult.signal = "HOLD" /\ fresult.signal_data = None)

\* C26 witness: a series of 49 candles whose last candles would score a BUY
\* was answered with HOLD
C26_Witness ==
    /\ fresult.fn = "get_signal"
    /\ fcall.df.len = 49
    /\ fcall.df.current.rsi = 55
    /\ fcall.df.current.timestamp.minute = 1200
    /\ fcall.signal_threshold = 70
    /\ fresult.signal = "HOLD"

\* C27 (as claimed): if medium EMA, MACD, MACD signal, MACD diff, the Bollinger
\* position or the volume ratio is undefined on a candle the scorer reads,
\* get_signal returns HOLD.
C27_UndefinedHolds ==
    (/\ fresult.fn = "get_signal"
     /\ fcall.df.len >= 50
     /\ LET current == add_indicators(fcall.df).current
        IN  \/ current.ema_medium = NaN
            \/ current.macd = NaN
            \/ current.macd_signal = NaN
            \/ current.macd_diff = NaN
            \/ (current.bb_position.num = 0 /\ current.bb_position.den = 0)
            \/ (current.volume_ratio.num = 0 /\ current.volume_ratio.den = 0))
        => fresult.signal = "HOLD"

\* The last candle of the scenario: fast EMA 101, medium EMA 100, slow EMA 98,
\* RSI 55, volume ratio 1.8, in the us session, on a series of full length and
\* at the default threshold
ScenarioCandle ==
    /\ fresult.fn = "get_signal"
    /\ fcall.df.len >= 50
    /\ fcall.signal_threshold = 70
    /\ fcall.df.current.ema_fast = 101
    /\ fcall.df.current.ema_medium = 100
    /\ fcall.df.current.ema_slow = 98
    /\ fcall.df.current.rsi = 55
    /\ fcall.df.current.volume * 10 = 18 * fcall.df.current.volume_ma
    /\ fcall.df.current.volume_ma > 0
    /\ fcall.df.current.timestamp.minute \div 60 >= 17

\* C28 (amended): for the last candle of the scenario, if also the close is
\* above the fast EMA, MACD is above its signal line with a positive MACD diff,
\* the close is above the close three candles earlier and the fast EMA above
\* the fast EMA two candles earlier, long_strength exceeds 0.70 and get_signal
\* returns BUY.
C28_RisingScenarioBuys ==
    (/\ ScenarioCandle
     /\ fcall.df.current.close > fcall.df.current.ema_fast
     /\ fcall.df.current.macd # NaN
     /\ fcall.df.current.macd > fcall.df.current.macd_signal
     /\ fcall.df.current.macd_diff > 0
     /\ fcall.df.current.close > fcall.df.fourth.close
     /\ fcall.df.current.ema_fast > fcall.df.third.ema_fast)
        => (SignalView.long > 70000000 /\ fresult.signal = "BUY")

\* C28 witness: a rising candle of the scenario was answered with BUY
C28_Witness ==
    /\ ScenarioCandle
    /\ fcall.df.current.close = 102
    /\ fcall.df.current.macd = 2
    /\ fcall.df.fourth.close = 95
    /\ fresult.signal = "BUY"

\* C28 (as claimed): for a last candle with fast EMA 101, medium EMA 100, slow
\* EMA 98, RSI 55, volume ratio 1.8 in the us session, long_strength exceeds
\* 0.70 and get_signal returns BUY.
C28_ScenarioBuys ==
    ScenarioCandle => (SignalView.long > 70000000 /\ fresult.signal = "BUY")

\* The stepwise reference for the quantity, in exact arithmetic: the quantity
\* in units of 1/QtyScale
ReferenceQty(balance, entry_price, min_qty, qty_step, min_order_value) ==
    LET raw_num == balance * POSITION_SIZE_PCT * LEVERAGE * QtyScale
        raw_den == 100 * entry_price
        \* raised to min_notional / entry_price, then to min_qty
        a_num == IF raw_num * entry_price < min_order_value * QtyScale * raw_den
                 THEN min_order_value * QtyScale * 100 ELSE raw_num
        b_num == IF a_num < min_qty * raw_den THEN min_qty * raw_den ELSE a_num
        floored == (b_num \div (raw_den * qty_step)) * qty_step
        c == IF floored < min_qty THEN min_qty ELSE floored
        need == min_order_value * QtyScale
        steps == IF need % (entry_price * qty_step) = 0
                 THEN need \div (entry_price * qty_step)
                 ELSE need \div (entry_price * qty_step) + 1
    IN  IF c * entry_price < need THEN steps * qty_step ELSE c

\* C29 (as claimed): the quantity computed by execute_trade_coin equals the
\* stepwise reference for all inputs: raw = balance x risk_pct x leverage /
\* entry_price, raised to min_notional / entry_price, raised to min_qty,
\* floored to a multiple of qty_step, raised to min_qty again, and replaced by
\* the ceiling multiple of qty_step if its notional is below min_notional.
C29_MatchesReference ==
    (fresult.fn = "execute_trade_coin" /\ fcall.balance # None)
        => fresult.calculated_qty =
               ReferenceQty(fcall.balance[1], fcall.entry_price, fcall.lot[1],
                            fcall.lot[2], fcall.min_order_value)

\* C30 (as claimed): every quantity that execute_trade_coin passes to
\* place_order is at least min_qty, has a notional of at least min_notional,
\* and is a multiple of qty_step.
C30_OrderMeetsFilters ==
    (fresult.fn = "execute_trade_coin" /\ fresult.outcome = "place_order")
        => /\ fresult.qty >= fcall.lot[1]
           /\ fresult.qty * fcall.entry_price >= fcall.min_order_value * QtyScale
           /\ fresult.qty % fcall.lot[2] = 0

\* The call the main thread is in is the one whose final verification raised
OrderRaised ==
    /\ xsig[Main] # <<>>
    /\ fresult.fn = "execute_trade_coin"
    /\ fcall.symbol = xsig[Main].symbol
    /\ fresult.outcome = "raise"

\* C31: when the notional of the printed quantity is below min_order_value,
\* execute_trade_coin fails for that symbol: no order is placed, the ledger is
\* unchanged, the call ends in its except handler (send_error_sync), and the
\* run loop goes on to the next signal with the remaining signals intact.
C31_TooSmallFails ==
    [][/\ OrderRaised' =>
            /\ positions' = positions
            /\ ~xplaced'[Main]
            /\ xpc'[Main] \in {"x_except", "x_done"}
            /\ xpc'[Main] = "x_done" => xout'[Main] = "error"
       /\ (OrderRaised /\ xpc[Main] = "x_done") =>
            /\ mpc' = "exec_next"
            /\ signals' = signals
            /\ xpc'[Main] = "idle"]_vars

\* The failed call has returned to the loop with a signal left to execute
C31_Witness ==
    /\ OrderRaised
    /\ xpc[Main] = "x_done"
    /\ xout[Main] = "error"
    /\ signals # <<>>
    /\ fresult.qty * fcall.entry_price < fcall.min_order_value * QtyScale

\* What the float operations of one sizing can do
FloatEnvs ==
    [floor_low : BOOLEAN, value_low : BOOLEAN, ceil_high : BOOLEAN, check_low : BOOLEAN]

\* C32: order sizing is monotonic in the balance: with entry_price, min_qty,
\* qty_step and min_order_value fixed (and risk and leverage the program's),
\* no smaller available balance yields a larger quantity, computed or
\* printed, than the balance of the call does.
C32_MonotonicInBalance ==
    (fresult.fn = "execute_trade_coin" /\ fcall.balance # None)
        => \A env \in FloatEnvs :
             OrderQuantity(fcall.balance, fcall.entry_price, fcall.lot[1], fcall.lot[2],
                           fcall.min_order_value, env) = fresult
                 => \A b \in Balances :
                      b < fcall.balance[1]
                          => LET smaller == OrderQuantity(Some(b), fcall.entry_price,
                                                          fcall.lot[1], fcall.lot[2],
                                                          fcall.min_order_value, env)
                             IN  /\ smaller.calculated_qty <= fresult.calculated_qty
                                 /\ smaller.qty <= fresult.qty

\* A balance above the minimum order value is sized, and a smaller balance of
\* the same call gets the quantity of the minimum order value, which is less
C32_Witness ==
    /\ fresult.fn = "execute_trade_coin"
    /\ fcall.balance # None
    /\ fresult.outcome = "place_order"
    /\ \E b \in Balances :
         /\ b < fcall.min_order_value
         /\ fcall.min_order_value < fcall.balance[1]
         /\ \A env \in FloatEnvs :
              OrderQuantity(Some(b), fcall.entry_price, fcall.lot[1], fcall.lot[2],
                            fcall.min_order_value, env).qty < fresult.qty

\* The opposite of a position's side
OppositeSide(side) == IF side = "Buy" THEN "Sell" ELSE "Buy"

\* C33 (as claimed): closing a ledger position submits a reduce-only market
\* order on the side opposite to the position's side: a Sell order for a Buy
\* position and a Buy order for a Sell position.
C33_ClosesOpposite ==
    (fresult.fn = "close_position" /\ fresult.outcome \in {"order", "rejected"})
        => /\ fresult.reduceOnly
           /\ fresult.side = OppositeSide(fresult.position_side)

\* C34 (as claimed): a ledger entry whose close trigger fires while the
\* exchange holds no position for the symbol is eventually removed from the
\* ledger.
C34_StaleEntryRemoved ==
    \A s \in Symbols :
        (fcall.fn = "get_positions" /\ s \in DOMAIN positions
            /\ wpc[s] = "c_exchange" /\ Held(s) = <<>>)
          ~> (s \notin DOMAIN positions)

\* set_tp_sl has just raised in the execute_trade_coin call the main thread is
\* in, and the call has not stored the position yet
TpSlFailedInCall ==
    /\ xpc[Main] \in {"x_store_acquire", "x_store"}
    /\ fresult.fn = "set_tp_sl"
    /\ fresult.outcome = "raise"
    /\ fresult.symbol = xsig[Main].symbol

\* C35: when set_tp_sl fails after a successful order, or during the startup
\* reconciliation, the position is still stored in the ledger with its locally
\* computed tp_price and sl_price, and the monitor phase of a later cycle
\* starts a worker for it like for every other entry.
C35_StoredWithoutExchangeTpSl ==
    [][/\ (xpc[Main] = "x_set_tp_sl" /\ xpc'[Main] # "x_set_tp_sl"
              /\ fresult'.outcome = "raise") =>
            /\ xplaced[Main]
            /\ TpSlFailedInCall'
       /\ TpSlFailedInCall =>
            \/ TpSlFailedInCall'
            \/ /\ xpc[Main] = "x_store"
               /\ xpc'[Main] = "x_chart"
               /\ fresult.symbol \in DOMAIN positions'
               /\ positions'[fresult.symbol].tp_price = fresult.tp_price
               /\ positions'[fresult.symbol].sl_price = fresult.sl_price
       /\ (mpc = "ce_set_tp_sl" /\ fresult'.fn = "set_tp_sl" /\ fresult'.outcome = "raise") =>
            /\ fresult'.symbol \in DOMAIN positions'
            /\ positions'[fresult'.symbol] = ExistingEntry(Head(all_positions))
       /\ (mpc = "mon_snapshot" /\ mpc' = "mon_join") =>
            \A s \in DOMAIN positions : wpc'[s] = "m_acquire"]_vars

\* A later cycle's monitor worker checks the price against the levels of an
\* entry whose set_tp_sl had failed
C35_Witness ==
    /\ fresult.fn = "set_tp_sl"
    /\ fresult.outcome = "raise"
    /\ fresult.symbol \in DOMAIN positions
    /\ wpc[fresult.symbol] = "m_check"
    /\ wpos[fresult.symbol].tp_price = fresult.tp_price
    /\ wpos[fresult.symbol].sl_price = fresult.sl_price

\* Positions of POSITION_SIZE_PCT each that make up the whole balance
FullExposure == 100 \div POSITION_SIZE_PCT

\* C36 (as claimed): the ledger never holds more than 5 positions at the same
\* time (each position uses 20% of the balance).
C36_AtMostFive == Cardinality(DOMAIN positions) <= FullExposure

\* ------------------------------- the command handler and the chat it serves
\* str(n) of a chat id, as its decimal digits, and the number a string of
\* digits denotes
RECURSIVE Str(_)
Str(n) == IF n < 10 THEN <<n>> ELSE Append(Str(n \div 10), n % 10)
RECURSIVE Value(_)
Value(digits) ==
    IF digits = <<>> THEN 0
    ELSE 10 * Value(SubSeq(digits, 1, Len(digits) - 1)) + digits[Len(digits)]

\* Chats that send updates, and values of Config.TELEGRAM_CHAT_ID ("1", "10"
\* and "01")
ChatIds == {1, 2, 10}
ConfiguredChatIds == {<<1>>, <<1, 0>>, <<0, 1>>}

\* (mutant) every chat is served
AnyChat(chat, chat_id) == TRUE

\* status_command / button_callback: str(chat.id) != str(self.chat_id) is false
Authorized(chat, chat_id) == Str(chat) = chat_id

\* The handler called for a report of the given kind
HandlerName(kind) == IF kind = "status" THEN "status_command" ELSE "button_callback"

\* status_command / button_callback for an update of the given chat, up to the
\* wait.  button_callback answers the callback query first.  Then a chat other
\* than the configured one is told "Unauthorized" and the handler returns.  Each
\* of these two awaits is outside the try block: if it raises, the handler ends
\* there.  For the configured chat the typing indicator or the processing
\* message may fail, which the handler answers with its error text; else the
\* report is handed to the executor and the coroutine waits for it
HandlerUpdate(kind, chat) ==
    LET first == IF kind = "detail" THEN <<"answer">> ELSE <<>>
        Handled(replies, started) ==
            /\ fcall' = [fn |-> HandlerName(kind), chat |-> chat,
                         chat_id |-> fcall.chat_id]
            /\ fresult' = [fn |-> HandlerName(kind), replies |-> replies,
                           started |-> started]
        Returns(replies) ==
            /\ Handled(replies, FALSE)
            /\ hreply' = IF replies = <<>> THEN "" ELSE replies[Len(replies)]
            /\ UNCHANGED <<trending_coins, positions, positions_lock, rpc,
                           hpc, hkind, elapsed>>
    IN  /\ hpc = "idle"
        /\ orphans < MaxOrphans
        /\ \/ kind = "detail" /\ Returns(<<>>)
           \/ /\ ~Authorized(chat, fcall.chat_id)
              /\ \/ Returns(first)
                 \/ Returns(Append(first, "unauthorized"))
           \/ /\ Authorized(chat, fcall.chat_id)
              /\ \/ Returns(Append(first, "error"))
                 \/ /\ ReportStart(kind)
                    /\ Handled(Append(first, "processing"), TRUE)
                    /\ hpc' = "wait"
                    /\ hkind' = kind
                    /\ elapsed' = 0
                    /\ hreply' = ""
        /\ UNCHANGED <<mpc, all_positions, backoff, interrupted, handler_running,
                       workerVars, scanVars, execVars, orphans, notifyVars>>

\* The handler of a bot whose run loop is not followed, with the chat id of
\* its configuration; no update has been handled
InitAuth ==
    /\ trending_coins \in GetTrendingResults
    /\ positions = <<>>
    /\ positions_lock = {}
    /\ mpc = "off"
    /\ all_positions = <<>>
    /\ backoff = 0
    /\ interrupted = FALSE
    /\ handler_running = TRUE
    /\ pending = {}
    /\ signals = <<>>
    /\ failed = {}
    /\ IdleWorkers
    /\ IdleExec
    /\ IdleCmd
    /\ IdleNotifier
    /\ fcall \in [fn : {"none"}, chat : {0}, chat_id : ConfiguredChatIds]
    /\ fresult = [fn |-> "none", replies |-> <<>>, started |-> FALSE]

NextAuth ==
    \/ \E kind \in ReportKinds, chat \in ChatIds : HandlerUpdate(kind, chat)
    \/ Tick
    \/ AwaitedReportReturn
    \/ HandlerResult
    \/ HandlerTimeout
    \/ OrphanReturn

SpecAuth == InitAuth /\ [][NextAuth]_vars

\* ------------------------- the run loop with send_error_sync step by step
\* close_position_coin: f"Error closing position {symbol}: {e}", the text of
\* the exception being that of BybitClient.close_position
NoOpenPosition == 0
CloseErrorMessage(symbol) == <<symbol, NoOpenPosition>>

\* The locals of worker s inside send_error_sync
ErrorCall(s) == fcall[s]
NoErrorCall == [fn |-> "none"]

\* send_error_sync: current_time = time.time(); last_sent =
\* self.error_notifications.get(error_key, 0)
ErrorRead(s) ==
    /\ wpc[s] = "c_except"
    /\ LET error_message == CloseErrorMessage(s)
       IN  fcall' = [fcall EXCEPT ![s] =
                         [fn |-> "send_error_sync",
                          error_message |-> error_message,
                          current_time |-> now,
                          last_sent |-> LastSent(ErrorKey(error_message)),
                          rebuilt |-> <<>>]]
    /\ wnotified' = [wnotified EXCEPT ![s] = TRUE]
    /\ wpc' = [wpc EXCEPT ![s] = "e_check"]
    /\ UNCHANGED <<positions, positions_lock, mainVars, wpos, wprice, wreason,
                   wclosed, scanVars, execVars, cmdVars, notifyVars, fresult>>

\* send_error_sync: inside the cooldown return; else
\* self.error_notifications[error_key] = current_time
ErrorStore(s) ==
    /\ wpc[s] = "e_check"
    /\ LET call == ErrorCall(s)
       IN  IF call.current_time - call.last_sent < error_cooldown_seconds
           THEN /\ nout' = [message |-> call.error_message, at |-> now,
                            outcome |-> "suppressed"]
                /\ fcall' = [fcall EXCEPT ![s] = NoErrorCall]
                /\ wpc' = [wpc EXCEPT ![s] = "c_return"]
                /\ UNCHANGED error_notifications
           ELSE /\ error_notifications' =
                       Put(error_notifications, ErrorKey(call.error_message),
                           call.current_time)
                /\ wpc' = [wpc EXCEPT ![s] = "e_rebuild"]
                /\ UNCHANGED <<nout, fcall>>
    /\ UNCHANGED <<positions, positions_lock, mainVars, wpos, wprice, wreason,
                   wclosed, wnotified, scanVars, execVars, cmdVars, now, delivered,
                   fresult>>

\* send_error_sync: the dict comprehension over self.error_notifications.items()
\* builds the new dict
ErrorRebuild(s) ==
    /\ wpc[s] = "e_rebuild"
    /\ fcall' = [fcall EXCEPT ![s].rebuilt =
                     Cleanup(error_notifications, ErrorCall(s).current_time)]
    /\ wpc' = [wpc EXCEPT ![s] = "e_assign"]
    /\ UNCHANGED <<positions, positions_lock, mainVars, wpos, wprice, wreason,
                   wclosed, wnotified, scanVars, execVars, cmdVars, notifyVars,
                   fresult>>

\* send_error_sync: self.error_notifications = the new dict
ErrorAssign(s) ==
    /\ wpc[s] = "e_assign"
    /\ error_notifications' = ErrorCall(s).rebuilt
    /\ wpc' = [wpc EXCEPT ![s] = "e_send"]
    /\ UNCHANGED <<positions, positions_lock, mainVars, wpos, wprice, wreason,
                   wclosed, wnotified, scanVars, execVars, cmdVars, now, delivered,
                   nout, fnVars>>

\* send_error_sync: self._run_async(self.notify_error(error_message)), whose
\* send_message delivers the text or fails.  A notification is dated by the
\* current_time of its call
ErrorSend(s) ==
    /\ wpc[s] = "e_send"
    /\ LET call == ErrorCall(s)
       IN  \/ /\ delivered' = Put(delivered, ErrorKey(call.error_message),
                                  call.current_time)
              /\ nout' = [message |-> call.error_message, at |-> call.current_time,
                          outcome |-> "sent"]
           \/ /\ delivered' = delivered
              /\ nout' = [message |-> call.error_message, at |-> call.current_time,
                          outcome |-> "failed"]
    /\ fcall' = [fcall EXCEPT ![s] = NoErrorCall]
    /\ wpc' = [wpc EXCEPT ![s] = "c_return"]
    /\ UNCHANGED <<positions, positions_lock, mainVars, wpos, wprice, wreason,
                   wclosed, wnotified, scanVars, execVars, cmdVars, now,
                   error_notifications, fresult>>

\* One cooldown passes on the notifier's clock
CooldownPasses ==
    /\ now < CleanupAge + error_cooldown_seconds
    /\ now' = now + error_cooldown_seconds
    /\ UNCHANGED <<trending_coins, positions, positions_lock, mainVars, workerVars,
                   scanVars, execVars, notifyOthers, error_notifications, delivered, nout>>

\* A running bot that holds a position in every symbol, the notifier idle
InitErrorRace ==
    /\ trending_coins = <<>>
    /\ positions = [s \in Symbols |-> PosData(40, "Buy")]
    /\ positions_lock = {}
    /\ mpc = "cycle_acquire"
    /\ all_positions = <<>>
    /\ backoff = 0
    /\ interrupted = FALSE
    /\ handler_running = TRUE
    /\ pending = {}
    /\ signals = <<>>
    /\ failed = {}
    /\ IdleWorkers
    /\ IdleExec
    /\ IdleCmd
    /\ IdleNotifier
    /\ fcall = [s \in MonWorkers |-> NoErrorCall]
    /\ fresult = [fn |-> "none"]

NextErrorRace ==
    \/ CycleAcquire
    \/ CycleLen
    \/ MonitorAllAcquire
    \/ MonitorAllSubmit
    \/ MonitorAllJoin
    \/ \E s \in MonWorkers :
         \/ MonAcquire(s)
         \/ MonRead(s)
         \/ MonPrice(s)
         \/ MonCheck(s)
         \/ CloseAcquire(s)
         \/ CloseRead(s)
         \/ CloseExchange(s)
         \/ CloseReport(s)
         \/ CloseRemoveAcquire(s)
         \/ CloseRemove(s)
         \/ ErrorRead(s)
         \/ ErrorStore(s)
         \/ ErrorRebuild(s)
         \/ ErrorAssign(s)
         \/ ErrorSend(s)
         \/ CloseReturn(s)
    \/ ScanSubmit
    \/ ScanJoin
    \/ NoSignalReport
    \/ CooldownPasses

SpecErrorRace == InitErrorRace /\ [][NextErrorRace]_vars

\* The part of both strengths that comes from the one volume_surge flag
SharedVolumeTerm(df, session_params) ==
    MeanReversionScore(0, 0, 0, 0, Flag(RatioGt(df.current.volume_ratio, 15, 10)))
        * session_params.mean_reversion_bias

\* C37: for no candle and no session do long_strength and short_strength both
\* exceed the 0.70 threshold: apart from the shared volume-surge term the long
\* and the short conditions exclude each other, so the two strengths total at
\* most 1 plus that term, and a get_signal call with the 0.70 threshold never
\* finds both of its conditions on strength true.
C37_NeverBothAboveDefault ==
    /\ fresult.fn = "calculate_signal_strength"
           => /\ fresult.long + fresult.short
                     <= StrengthOne
                            + SharedVolumeTerm(fcall.df,
                                               get_session_parameters(fcall.session))
              /\ ~(fresult.long >= Threshold(70) /\ fresult.short >= Threshold(70))
    /\ (SignalScored /\ fcall.signal_threshold = 70)
           => ~(SignalView.long >= SignalView.threshold
                    /\ SignalView.short >= SignalView.threshold)

\* C37 witness: a get_signal call with the 0.70 threshold on a candle with a
\* volume surge, whose long strength exceeds the threshold while the short
\* strength is just the shared term
C37_Witness ==
    /\ SignalScored
    /\ fcall.signal_threshold = 70
    /\ fresult.signal = "BUY"
    /\ SignalView.long > SignalView.threshold
    /\ SignalView.short > 0

\* C38: whenever a KeyboardInterrupt arrives inside the loop, during a cycle
\* or in the except Exception handler and its 60-second sleep, run() leaves the
\* loop through break and calls command_handler.stop(): the handler is no
\* longer running.
C38_InterruptStopsHandler ==
    [][(/\ ~interrupted /\ interrupted'
        /\ mpc \in TryPcs \cup {"loop_except", "backoff"})
           => (mpc' = "stopped" /\ ~handler_running')]_vars

\* C39: concurrent send_error_sync calls of the monitor workers send at most
\* one notification per message key within one cooldown window: a call's
\* notification for a key is sent only if the last notification sent for that
\* key belongs to a call made at least error_cooldown_seconds earlier.
C39_OnePerCooldown ==
    [][\A s \in MonWorkers :
         (/\ wpc[s] = "e_send" /\ wpc'[s] = "c_return"
          /\ nout'.outcome = "sent")
            => LET error_key == ErrorKey(ErrorCall(s).error_message)
               IN  \/ error_key \notin DOMAIN delivered
                   \/ ErrorCall(s).current_time - delivered[error_key]
                          >= error_cooldown_seconds]_vars

\* The last update came from a chat other than the configured one
FromOtherChat == fcall.fn # "none" /\ fcall.chat # Value(fcall.chat_id)
Replies == {fresult.replies[i] : i \in DOMAIN fresult.replies}

\* C40 (as stated): a /status command or a detail-button callback of a chat
\* other than the configured one starts no report and receives only the
\* unauthorized reply.
C40_OnlyUnauthorizedReply ==
    FromOtherChat => (~fresult.started /\ Replies \subseteq {"unauthorized"})

\* C40 (amended): a /status command or a detail-button callback of a chat
\* other than the configured one starts no report: nothing is handed to the
\* executor and the handler does not wait.  A /status command receives only
\* the unauthorized reply; a detail-button callback is first answered
\* ("Generating analysis...") and then receives the unauthorized reply.
C40_UnauthorizedNoReport ==
    FromOtherChat
        => /\ ~fresult.started
           /\ fresult.fn = "status_command" => Replies \subseteq {"unauthorized"}
           /\ fresult.fn = "button_callback"
                  => /\ Replies \subseteq {"answer", "unauthorized"}
                     /\ "unauthorized" \in Replies
                            => fresult.replies = <<"answer", "unauthorized">>

\* C40 witness: a detail-button callback of another chat has been answered and
\* refused, no report running
C40_Witness ==
    /\ FromOtherChat
    /\ fresult.fn = "button_callback"
    /\ fresult.replies = <<"answer", "unauthorized">>
    /\ rpc = "idle"
    /\ hpc = "idle"
====
